---- MODULE Spec2Model ----
(***************************************************************************)
(* The peer overlay engine of the decentralised chat: NetworkManager of    *)
(* src/src/network.py (the module main.py and the tests import), with the  *)
(* reliable read/write helpers of src/chat/utils.py.                       *)
(*                                                                         *)
(* A node is one NetworkManager.  A TCP connection is a pair of stream     *)
(* ends <<c, "d">> (the dialer's socket) and <<c, "a">> (the socket the    *)
(* acceptor got from accept()); chan[s] holds the frames that were written *)
(* to the other end and that end s has not read yet.  Every thread of the  *)
(* program is a task with a position: the thread that serves a stream end  *)
(* (pc[s]), the caller of the public methods (user[n]), the heartbeat      *)
(* thread (beat[n]) and the file-chunk senders (ftasks[n]).                *)
(*                                                                         *)
(* threading.Lock is not reentrant: a task that asks for the lock it holds *)
(* blocks for ever.  A critical section that runs to its end is one step;  *)
(* one that calls remove_peer while holding the lock leaves the lock held  *)
(* and the task at "deadlock".                                             *)
(***************************************************************************)
EXTENDS Integers, Sequences, FiniteSets, TLC

Node == {"A", "B", "C", "D"}

\* Bounds of the model.
MaxConn == 2
MaxQueue == 3
MaxHist == 4
MaxFileSize == 3
ChunkSize == 2
MaxPayload == 2
MaxWait == 1

Side == {"d", "a"}
Sock == (1..MaxConn) \X Side
NoSock == <<0, "-">>
Other(s) == <<s[1], IF s[2] = "d" THEN "a" ELSE "d">>

\* uuid.uuid4(): one id per process; the node's name stands for it.
ConnectionId(n) == n

\* The address a listening socket is bound to, and a second name of the same
\* host (localhost for 127.0.0.1, another interface of the machine).
ServerIp(n) == CASE n = "A" -> "ipA" [] n = "B" -> "ipB" [] n = "C" -> "ipC" [] OTHER -> "ipD"
Alias(n) == CASE n = "A" -> "aliasA" [] n = "B" -> "aliasB" [] n = "C" -> "aliasC" [] OTHER -> "aliasD"
\* self.port, the port the constructor was given: D is started with port 0.
Port(n) == CASE n = "A" -> 5001 [] n = "B" -> 5002 [] n = "C" -> 5003 [] OTHER -> 0
\* self.sock.getsockname()[1]: the port the listening socket is bound to; for
\* port 0 the system picks one.
BoundPort(n) == IF Port(n) = 0 THEN 49152 ELSE Port(n)
\* addr[1] of sock.accept(): the port the system gave the dialling socket of
\* connection c.
SourcePort(c) == 32768 + c
Host == {ServerIp(n) : n \in Node} \cup {Alias(n) : n \in Node}
Owner(host, port) == {n \in Node : host \in {ServerIp(n), Alias(n)} /\ port = BoundPort(n)}
DefaultNick(n) == <<"User", Port(n)>>

\* The files a node can offer: file k holds k bytes, every byte its own.
File == 0..MaxFileSize
FileBytes(k) == [i \in 1..k |-> 10 * k + i]

Free == <<"free", 0, "-">>
ConnTask(s) == <<"conn", s[1], s[2]>>
UserTask == <<"user", 0, "-">>
BeatTask == <<"beat", 0, "-">>

\* handle_file_meta's local variables path and size, before there are any.
NoOpening == [path |-> <<-1, 0>>, size |-> 0]
NoPeer == [id |-> "-", nick |-> <<"-", 0>>, addr |-> <<"-", 0>>, rsock |-> NoSock,
           opening |-> NoOpening]
NoConn == [dialer |-> "-", acceptor |-> "-", host |-> "-", port |-> 0, by |-> "-"]
NoRet == [host |-> "-", port |-> 0, val |-> "none"]
Idle == [pc |-> "idle", id |-> "-", nick |-> <<"-", 0>>, rsock |-> NoSock]
Absent == [pc |-> "none", id |-> "-", nick |-> <<"-", 0>>, rsock |-> NoSock]
NoFile == -1
NoEffect == [close |-> 0, text |-> 0, message |-> 0, roster |-> 0, update |-> 0]
None == "None"
NoGui == [clear_history |-> 0, update_peers |-> <<>>]
NoWire == [bytes |-> <<>>, end |-> "-", sent |-> <<>>, all |-> <<>>]
NoReader == [pc |-> "-", want |-> 0, had |-> 0, data |-> <<>>, waited |-> 0, ret |-> <<>>,
             header |-> <<>>, frames |-> <<>>]
\* The tasks of one node that write to the stream of one peer: the heartbeat
\* thread and the caller of send_text broadcast, a _send_file_data thread
\* writes to the one socket.
WriteTask == {"beat", "user", "file"}
NoWriter == [pc |-> "none", packet |-> <<>>, total_sent |-> 0]
NoTx == [lock |-> "-", w |-> [t \in WriteTask |-> NoWriter]]

\* class MessageType: the type tags a frame can carry.
MessageType == {"TEXT", "FMTA", "FDAT", "FACC", "FDEC", "NICK", "PERS", "BEAT", "CONN", "CLRH"}

VARIABLES
    peers,           \* self.peers: the registry, in insertion order
    connection_map,  \* self.connection_map: address -> id
    peer_nicks,      \* self.peer_nicks: id -> nickname
    nickname,        \* self.nickname
    running,         \* self.running
    listening,       \* self.sock is open and bound
    is_host,         \* self.is_host
    chat_history,    \* self.chat_history
    lock,            \* self.lock: Free or the task that holds it
    conn,            \* the TCP connections opened so far
    chan,            \* frames in flight towards each stream end
    closed,          \* stream ends closed by their owner
    pc,              \* position of the thread serving each stream end
    tpeer,           \* that thread's peer_id, peer_nick and peer address
    connect_ret,     \* what the last finished connect_to_peer call returned
    user,            \* the caller of the public methods
    beat,            \* the heartbeat thread
    todo,            \* the calls of the public methods still to come
    pending_file,    \* self.pending_file (and pending_file_name)
    current_files,   \* self.current_files: id -> receive-side transfer
    downloads,       \* the files of the downloads directory
    ftasks,          \* the _send_file_data threads
    answered,        \* the answers respond_file gave: peer, file name, answer
    events,          \* 'message' events of completed transfers, by path
    fdat_sent,       \* stream ends on which FILE_DATA was written
    facc_from,       \* ids whose FILE_ACCEPT was dispatched
    rm_calls,        \* remove_peer invocations, by id
    rm_effects,      \* what remove_peer did for the entry of each stream end
    loop_exit,       \* what the registry held for the id when a dispatcher ended
    wire,            \* one socket seen byte by byte: what recv will return, in order
    rx,              \* the thread that reads that socket with receive_all
    saved,           \* what the calls of save_file returned, in order
    gui,             \* gui_callback: 'clear_history' events so far, last 'update_peers' roster of a peer list
    tx               \* the tasks that write to that socket with send_all, and the lock they share

registry == <<peers, connection_map, peer_nicks>>
nodeVars == <<nickname, running, listening, is_host, chat_history, lock>>
netVars == <<conn, chan, closed, pc, tpeer>>
taskVars == <<connect_ret, user, beat, todo>>
fileVars == <<pending_file, current_files, downloads, ftasks>>
obsVars == <<answered, events, fdat_sent, facc_from, rm_calls, rm_effects, loop_exit>>
byteVars == <<wire, rx, saved, gui, tx>>
vars == <<registry, nodeVars, netVars, taskVars, fileVars, obsVars, byteVars>>

----------------------------------------------------------------------------
\* Dictionaries.
MapPut(f, k, v) == [x \in (DOMAIN f) \cup {k} |-> IF x = k THEN v ELSE f[x]]
MapDel(f, k) == [x \in (DOMAIN f) \ {k} |-> f[x]]
EmptyMap == <<>>

\* self.peers is a dict in insertion order: a sequence of entries, one per id.
PeerIds(ps) == {ps[i].id : i \in 1..Len(ps)}
HasPeer(n, id) == id \in PeerIds(peers[n])
PeerEntry(ps, id) == ps[CHOOSE i \in 1..Len(ps) : ps[i].id = id]
PeersPut(ps, e) ==
    IF e.id \in PeerIds(ps)
    THEN [i \in 1..Len(ps) |-> IF ps[i].id = e.id THEN e ELSE ps[i]]
    ELSE Append(ps, e)
PeersPop(ps, id) == SelectSeq(ps, LAMBDA e : e.id # id)
Registered(n) == {peers[n][i].sock : i \in 1..Len(peers[n])}

NodeOf(s) == IF s[2] = "d" THEN conn[s[1]].dialer ELSE conn[s[1]].acceptor
Used == {c \in 1..MaxConn : conn[c] # NoConn}

----------------------------------------------------------------------------
\* Frames: a type tag of MessageType and a payload.
Frame(t, d) == [type |-> t, data |-> d]
ConnRecord(n) == [conn_id |-> ConnectionId(n), nickname |-> nickname[n], listen_port |-> Port(n)]

\* send_all on stream end s: it raises when s is closed, and may raise
\* (ConnectionResetError, BrokenPipeError) once the other end is closed.
MustFail(s) == closed[s]
CanFail(s) == closed[s] \/ closed[Other(s)]
\* A stream that hands over the frames written last first.
DeliverFront(ch, s, fs) == IF closed[Other(s)] THEN ch ELSE [ch EXCEPT ![Other(s)] = fs \o @]
\* The frames a successful write leaves in flight.
Deliver(ch, s, fs) == IF closed[Other(s)] THEN ch ELSE [ch EXCEPT ![Other(s)] = @ \o fs]
Room(s, k) == closed[Other(s)] \/ Len(chan[Other(s)]) + k <= MaxQueue

\* send_message(msg_type, data) with sock=None: under the lock, write the packet
\* to every registered peer in dict order; a failed write calls remove_peer with
\* the lock held.  k = 0: every write succeeded; k > 0: the k-th write raised.
BroadcastOutcome(ps) ==
    {k \in 0..Len(ps) :
        /\ \A i \in 1..Len(ps) : (k = 0 \/ i < k) => ~MustFail(ps[i].sock)
        /\ k > 0 => CanFail(ps[k].sock)}
RECURSIVE BroadcastUpTo(_, _, _, _)
BroadcastUpTo(ch, ps, fs, j) ==
    IF j = 0 THEN ch
    ELSE Deliver(BroadcastUpTo(ch, ps, fs, j - 1), ps[j].sock, fs)
Broadcast(ch, ps, fs, k) == BroadcastUpTo(ch, ps, fs, IF k = 0 THEN Len(ps) ELSE k - 1)
BroadcastRoom(ps, k) == \A i \in 1..Len(ps) : Room(ps[i].sock, k)

\* send_peer_list / get_peer_list: the registered peers, then the self-entry.
Roster(n, ps, nicks) ==
    [i \in 1..Len(ps) |->
        [host |-> ps[i].addr[1], port |-> ps[i].addr[2],
         nick |-> IF ps[i].id \in DOMAIN nicks THEN nicks[ps[i].id] ELSE <<"", 0>>]]
    \o <<[host |-> ServerIp(n), port |-> Port(n), nick |-> nickname[n]]>>

----------------------------------------------------------------------------
\* The calls of the public methods a run may still make.
NoCalls == [dial |-> 0, stop |-> 0, remove |-> 0, file |-> 0, text |-> 0,
            beat |-> 0, meta |-> 0, data |-> 0, nick |-> 0, write |-> 0, save |-> 0,
            clear |-> 0, list |-> 0]

Calls(callers, c) == [n \in Node |-> IF n \in callers THEN c ELSE NoCalls]

\* NetworkManager.__init__ (lines 25-54) for the nodes that are started.
FreshNodes(started, calls) ==
    /\ peers = [n \in Node |-> <<>>]
    /\ connection_map = [n \in Node |-> EmptyMap]
    /\ peer_nicks = [n \in Node |-> EmptyMap]
    /\ nickname = [n \in Node |-> DefaultNick(n)]
    /\ running = [n \in Node |-> n \in started]
    /\ listening = [n \in Node |-> n \in started]
    /\ is_host = [n \in Node |-> TRUE]
    /\ chat_history = [n \in Node |-> <<>>]
    /\ lock = [n \in Node |-> Free]
    /\ conn = [c \in 1..MaxConn |-> NoConn]
    /\ chan = [s \in Sock |-> <<>>]
    /\ closed = [s \in Sock |-> FALSE]
    /\ pc = [s \in Sock |-> "unused"]
    /\ tpeer = [s \in Sock |-> NoPeer]
    /\ connect_ret = [n \in Node |-> NoRet]
    /\ user = [n \in Node |-> IF n \in started THEN Idle ELSE Absent]
    /\ beat = [n \in Node |-> IF n \in started THEN "run" ELSE "none"]
    /\ todo = calls
    /\ pending_file = [n \in Node |-> NoFile]
    /\ current_files = [n \in Node |-> EmptyMap]
    /\ downloads = [n \in Node |-> EmptyMap]
    /\ ftasks = [n \in Node |-> <<>>]
    /\ answered = [n \in Node |-> {}]
    /\ events = [n \in Node |-> {}]
    /\ fdat_sent = [n \in Node |-> {}]
    /\ facc_from = [n \in Node |-> {}]
    /\ rm_calls = [n \in Node |-> [m \in Node |-> 0]]
    /\ rm_effects = [s \in Sock \cup {NoSock} |-> NoEffect]
    /\ loop_exit = [s \in Sock |-> "-"]
    /\ saved = <<>>
    /\ gui = [n \in Node |-> NoGui]

Fresh(started, calls) ==
    FreshNodes(started, calls) /\ wire = NoWire /\ rx = NoReader /\ tx = NoTx

----------------------------------------------------------------------------
\* What a thread's socket becomes when the thread ends without closing it: the
\* dialer's socket loses its last reference and is closed; an accepted socket
\* may still be held by the accept loop's variable until the next accept().
Dropped(s) == IF s[2] = "d" THEN {TRUE} ELSE {TRUE, FALSE}

\* _do_handshake without the comparison with the node's own id.
HandshakeRejectsKnown(n, id) == HasPeer(n, id)

\* _do_handshake, line 105: the new link is refused.
HandshakeRejects(n, id) == id = ConnectionId(n) \/ HasPeer(n, id)

\* A node that takes no address for connected.
IsConnectedToNever(n, host, port) == FALSE

\* is_connected_to (lines 481-484).
IsConnectedTo(n, host, port) == <<host, port>> \in DOMAIN connection_map[n]

\* A connect_to_peer that leaves is_host as it found it.
DialedKeepsHost(h, n) == h

\* self.is_host = False, the statement after sock.connect (line 330).
Dialed(h, n) == [h EXCEPT ![n] = FALSE]

\* connect_to_peer(host, port) up to the CONN frame it sends (lines 319-337).  The
\* call blocks its caller until the handshake is settled.
ConnectToPeer(n, host, port) ==
    /\ user[n].pc = "idle"
    /\ todo[n].dial > 0
    /\ todo' = [todo EXCEPT ![n].dial = @ - 1]
    /\ IF host = ServerIp(n) /\ port = Port(n)
       THEN /\ connect_ret' = [connect_ret EXCEPT ![n] = [host |-> host, port |-> port, val |-> "False"]]
            /\ UNCHANGED <<registry, nodeVars, netVars, user, beat, fileVars, obsVars, byteVars>>
       ELSE /\ lock[n] = Free
            /\ IF IsConnectedTo(n, host, port)
                  \/ \A m \in Owner(host, port) : ~listening[m]
               THEN /\ connect_ret' = [connect_ret EXCEPT ![n] = [host |-> host, port |-> port, val |-> "False"]]
                    /\ UNCHANGED <<registry, nodeVars, netVars, user, beat, fileVars, obsVars, byteVars>>
               ELSE \E m \in Owner(host, port) : \E c \in 1..MaxConn :
                    /\ listening[m]
                    /\ conn[c] = NoConn
                    /\ \A b \in 1..MaxConn : b < c => conn[b] # NoConn
                    /\ conn' = [conn EXCEPT ![c] = [dialer |-> n, acceptor |-> m, host |-> host,
                                                      port |-> port, by |-> "user"]]
                    /\ user' = [user EXCEPT ![n].pc = "connect"]
                    /\ is_host' = Dialed(is_host, n)
                    /\ chan' = [chan EXCEPT ![<<c, "a">>] = <<Frame("CONN", ConnRecord(n))>>]
                    /\ pc' = [pc EXCEPT ![<<c, "d">>] = "c_wait", ![<<c, "a">>] = "h_recv"]
                    /\ UNCHANGED <<registry, nickname, running, listening, chat_history, lock,
                                   closed, tpeer, connect_ret, beat, fileVars, obsVars, byteVars>>

\* connect_to_peer run by a thread that handle_peer_list started (lines 533-536):
\* the same call, next to whatever else the node is doing.
DialThread(n, host, port) ==
    /\ running[n]
    /\ todo[n].list > 0
    /\ todo' = [todo EXCEPT ![n].list = @ - 1]
    /\ IF host = ServerIp(n) /\ port = Port(n)
       THEN /\ connect_ret' = [connect_ret EXCEPT ![n] = [host |-> host, port |-> port, val |-> "False"]]
            /\ UNCHANGED <<registry, nodeVars, netVars, user, beat, fileVars, obsVars, byteVars>>
       ELSE /\ lock[n] = Free
            /\ IF IsConnectedTo(n, host, port)
                  \/ \A m \in Owner(host, port) : ~listening[m]
               THEN /\ connect_ret' = [connect_ret EXCEPT ![n] = [host |-> host, port |-> port, val |-> "False"]]
                    /\ UNCHANGED <<registry, nodeVars, netVars, user, beat, fileVars, obsVars, byteVars>>
               ELSE \E m \in Owner(host, port) : \E c \in 1..MaxConn :
                    /\ listening[m]
                    /\ conn[c] = NoConn
                    /\ \A b \in 1..MaxConn : b < c => conn[b] # NoConn
                    /\ conn' = [conn EXCEPT ![c] = [dialer |-> n, acceptor |-> m, host |-> host,
                                                      port |-> port, by |-> "list"]]
                    /\ is_host' = Dialed(is_host, n)
                    /\ chan' = [chan EXCEPT ![<<c, "a">>] = <<Frame("CONN", ConnRecord(n))>>]
                    /\ pc' = [pc EXCEPT ![<<c, "d">>] = "c_wait", ![<<c, "a">>] = "h_recv"]
                    /\ UNCHANGED <<registry, nickname, running, listening, chat_history, lock,
                                   closed, tpeer, connect_ret, user, beat, fileVars, obsVars, byteVars>>

\* _do_handshake, lines 96 and 101-102: MessageType(tag) raises ValueError for a
\* tag that is no member of the enum, json.loads and info['conn_id'] raise for a
\* payload that is no record with a connection id.  Nothing catches it: the
\* thread dies in _on_new_connection before line 75 closes the stream.
HandshakeRaises(f) ==
    \/ f.type \notin MessageType
    \/ f.type = "CONN" /\ f.data # <<>> /\ "conn_id" \notin DOMAIN f.data

\* _on_new_connection / _do_handshake up to the response (lines 72-76, 92-113).
HandshakeRecv(s) ==
    LET n == NodeOf(s) IN
    /\ s[2] = "a" /\ pc[s] = "h_recv"
    /\ chan[s] # <<>> \/ closed[Other(s)]
    /\ IF chan[s] # <<>> /\ HandshakeRaises(Head(chan[s]))
       THEN /\ \E b \in Dropped(s) : closed' = [closed EXCEPT ![s] = b]
            /\ pc' = [pc EXCEPT ![s] = "done"]
            /\ chan' = [chan EXCEPT ![s] = Tail(@)]
            /\ UNCHANGED tpeer
       ELSE IF chan[s] = <<>> \/ Head(chan[s]).type # "CONN" \/ Head(chan[s]).data = <<>>
       THEN /\ closed' = [closed EXCEPT ![s] = TRUE]
            /\ pc' = [pc EXCEPT ![s] = "done"]
            /\ chan' = [chan EXCEPT ![s] = IF @ = <<>> THEN @ ELSE Tail(@)]
            /\ UNCHANGED tpeer
       ELSE LET info == Head(chan[s]).data IN
            IF HandshakeRejects(n, info.conn_id)
            THEN /\ closed' = [closed EXCEPT ![s] = TRUE]
                 /\ pc' = [pc EXCEPT ![s] = "done"]
                 /\ chan' = [chan EXCEPT ![s] = Tail(@)]
                 /\ UNCHANGED tpeer
            ELSE \/ /\ ~MustFail(s)
                    /\ Room(s, 1)
                    /\ chan' = Deliver([chan EXCEPT ![s] = Tail(@)], s, <<Frame("CONN", ConnRecord(n))>>)
                    /\ pc' = [pc EXCEPT ![s] = "h_reg"]
                    /\ tpeer' = [tpeer EXCEPT ![s] =
                           [id |-> info.conn_id, nick |-> info.nickname,
                            addr |-> <<ServerIp(conn[s[1]].dialer),
                                       IF "listen_port" \in DOMAIN info
                                       THEN info.listen_port ELSE SourcePort(s[1])>>,
                            rsock |-> NoSock, opening |-> NoOpening]]
                    /\ UNCHANGED closed
                 \/ /\ CanFail(s)
                    /\ \E b \in Dropped(s) : closed' = [closed EXCEPT ![s] = b]
                    /\ pc' = [pc EXCEPT ![s] = "done"]
                    /\ chan' = [chan EXCEPT ![s] = Tail(@)]
                    /\ UNCHANGED tpeer
    /\ UNCHANGED <<registry, nodeVars, conn, taskVars, fileVars, obsVars, byteVars>>

\* _do_handshake from the registration on (lines 115-124): the entry is written
\* whatever the registry holds by now, then the roster goes to every peer.
HandshakeRegister(s) ==
    LET n == NodeOf(s)
        p == tpeer[s]
        ps == PeersPut(peers[n], [id |-> p.id, sock |-> s, addr |-> p.addr])
        nicks == MapPut(peer_nicks[n], p.id, p.nick)
        list == <<Frame("PERS", Roster(n, ps, nicks))>>
    IN
    /\ s[2] = "a" /\ pc[s] = "h_reg"
    /\ lock[n] = Free
    /\ Len(chat_history[n]) < MaxHist
    /\ BroadcastRoom(ps, 1)
    /\ peers' = [peers EXCEPT ![n] = ps]
    /\ connection_map' = [connection_map EXCEPT ![n] = MapPut(@, p.addr, p.id)]
    /\ peer_nicks' = [peer_nicks EXCEPT ![n] = nicks]
    /\ chat_history' = [chat_history EXCEPT ![n] = Append(@, <<"joined", p.nick>>)]
    /\ \E k \in BroadcastOutcome(ps) :
        /\ chan' = Broadcast(chan, ps, list, k)
        /\ pc' = [pc EXCEPT ![s] = IF k = 0 THEN "h_replay" ELSE "deadlock"]
        /\ lock' = [lock EXCEPT ![n] = IF k = 0 THEN Free ELSE ConnTask(s)]
    /\ UNCHANGED <<nickname, running, listening, is_host, conn, closed, tpeer, taskVars, fileVars, obsVars, byteVars>>

\* _on_new_connection, lines 78-88: the host replays its history to the newcomer
\* under the lock; a failed write calls remove_peer with the lock held.
\* A replay that leaves out the last line.
HistoryFramesButLast(h) == [i \in 1..(Len(h) - 1) |-> Frame("TEXT", h[i])]
HistoryFrames(h) == [i \in 1..Len(h) |-> Frame("TEXT", h[i])]
HandshakeReplay(s) ==
    LET n == NodeOf(s) IN
    /\ s[2] = "a" /\ pc[s] = "h_replay"
    /\ IF ~is_host[n]
       THEN /\ pc' = [pc EXCEPT ![s] = "loop"]
            /\ UNCHANGED <<chan, lock>>
       ELSE /\ lock[n] = Free
            /\ Room(s, Len(chat_history[n]))
            /\ \/ /\ ~MustFail(s)
                  /\ chan' = Deliver(chan, s, HistoryFrames(chat_history[n]))
                  /\ pc' = [pc EXCEPT ![s] = "loop"]
                  /\ UNCHANGED lock
               \/ /\ CanFail(s) /\ chat_history[n] # <<>>
                  /\ \E j \in 0..(Len(chat_history[n]) - 1) :
                        chan' = Deliver(chan, s, HistoryFrames(SubSeq(chat_history[n], 1, j)))
                  /\ pc' = [pc EXCEPT ![s] = "deadlock"]
                  /\ lock' = [lock EXCEPT ![n] = ConnTask(s)]
    /\ UNCHANGED <<registry, nickname, running, listening, is_host, chat_history,
                   conn, closed, tpeer, taskVars, fileVars, obsVars, byteVars>>

\* connect_to_peer from the response on (lines 339-379).
ConnectFinish(s) ==
    LET n == NodeOf(s)
        c == conn[s[1]]
        ret(v) == [connect_ret EXCEPT ![n] = [host |-> c.host, port |-> c.port, val |-> v]]
    IN
    /\ s[2] = "d" /\ pc[s] = "c_wait"
    /\ chan[s] # <<>> \/ closed[Other(s)]
    /\ user' = [user EXCEPT ![n] = IF c.by = "user" THEN Idle ELSE @]
    /\ IF chan[s] = <<>> \/ Head(chan[s]).type # "CONN"
       THEN /\ closed' = [closed EXCEPT ![s] = TRUE]
            /\ pc' = [pc EXCEPT ![s] = "done"]
            /\ chan' = [chan EXCEPT ![s] = IF @ = <<>> THEN @ ELSE Tail(@)]
            /\ connect_ret' = ret("False")
            /\ UNCHANGED <<registry, chat_history, tpeer>>
       ELSE LET resp == Head(chan[s]).data
                addr == <<c.host, resp.listen_port>>
                ps == Append(peers[n], [id |-> resp.conn_id, sock |-> s, addr |-> addr])
                nicks == MapPut(peer_nicks[n], resp.conn_id, resp.nickname)
                list == <<Frame("PERS", Roster(n, ps, nicks))>>
            IN
            /\ lock[n] = Free
            /\ IF HasPeer(n, resp.conn_id)
               THEN /\ closed' = [closed EXCEPT ![s] = TRUE]
                    /\ pc' = [pc EXCEPT ![s] = "done"]
                    /\ chan' = [chan EXCEPT ![s] = Tail(@)]
                    /\ connect_ret' = ret("False")
                    /\ UNCHANGED <<registry, chat_history, tpeer>>
               ELSE /\ Len(chat_history[n]) < MaxHist
                    /\ peers' = [peers EXCEPT ![n] = ps]
                    /\ connection_map' = [connection_map EXCEPT ![n] = MapPut(@, addr, resp.conn_id)]
                    /\ peer_nicks' = [peer_nicks EXCEPT ![n] = nicks]
                    /\ chat_history' = [chat_history EXCEPT ![n] = Append(@, <<"joined", resp.nickname>>)]
                    /\ tpeer' = [tpeer EXCEPT ![s] = [id |-> resp.conn_id, nick |-> resp.nickname,
                                                     addr |-> addr, rsock |-> NoSock,
                                                     opening |-> NoOpening]]
                    /\ UNCHANGED closed
                    /\ \/ /\ ~MustFail(s)
                          /\ Room(s, 1)
                          /\ chan' = Deliver([chan EXCEPT ![s] = Tail(@)], s, list)
                          /\ pc' = [pc EXCEPT ![s] = "loop"]
                          /\ connect_ret' = ret("True")
                       \/ /\ CanFail(s)
                          /\ chan' = [chan EXCEPT ![s] = Tail(@)]
                          /\ pc' = [pc EXCEPT ![s] = "done"]
                          /\ connect_ret' = ret("False")
    /\ UNCHANGED <<nickname, running, listening, is_host, lock, conn, beat, todo, fileVars, obsVars, byteVars>>

----------------------------------------------------------------------------
\* remove_peer without its early return.
RemoveAbsentNever(n, id) == FALSE

\* remove_peer, lines 488-490: nothing to do for an id that is not registered.
RemoveAbsent(n, id) == ~HasPeer(n, id)

EntryOf(ps, id) ==
    IF id \in PeerIds(ps) THEN PeerEntry(ps, id)
    ELSE [id |-> id, sock |-> NoSock, addr |-> <<"-", 0>>]
PoppedNick(n, id) == IF id \in DOMAIN peer_nicks[n] THEN peer_nicks[n][id] ELSE <<"Unknown", 0>>

\* remove_peer, lines 491-497: the three maps lose the entry, its stream is closed.
RemovePop(n, id) ==
    LET e == EntryOf(peers[n], id) IN
    /\ peers' = [peers EXCEPT ![n] = PeersPop(@, id)]
    /\ peer_nicks' = [peer_nicks EXCEPT ![n] = MapDel(@, id)]
    /\ connection_map' = [connection_map EXCEPT ![n] = MapDel(@, e.addr)]
    /\ closed' = IF e.sock \in Sock THEN [closed EXCEPT ![e.sock] = TRUE] ELSE closed
    /\ rm_effects' = [rm_effects EXCEPT ![e.sock].close = @ + 1]

\* remove_peer, lines 498-502: the notice and the roster go to the peers that are
\* left; ok tells whether the call returned or blocks inside send_message.
RemoveNotify(n, task, nick, rsock, ok) ==
    LET ps == peers[n]
        text == <<Frame("TEXT", <<"left", nick>>)>>
        list == <<Frame("PERS", Roster(n, ps, peer_nicks[n]))>>
    IN
    /\ lock[n] = Free
    /\ BroadcastRoom(ps, 2)
    /\ \E k1 \in BroadcastOutcome(ps) :
        IF k1 # 0
        THEN /\ chan' = Broadcast(chan, ps, text, k1)
             /\ rm_effects' = [rm_effects EXCEPT ![rsock].text = @ + 1]
             /\ lock' = [lock EXCEPT ![n] = task]
             /\ ok = FALSE
        ELSE \E k2 \in BroadcastOutcome(ps) :
             /\ chan' = Broadcast(Broadcast(chan, ps, text, 0), ps, list, k2)
             /\ rm_effects' = [rm_effects EXCEPT ![rsock] =
                    [@ EXCEPT !.text = @ + 1, !.message = @ + 1, !.roster = @ + 1,
                              !.update = IF k2 = 0 THEN @ + 1 ELSE @]]
             /\ lock' = [lock EXCEPT ![n] = IF k2 = 0 THEN Free ELSE task]
             /\ ok = (k2 = 0)

\* The remove_peer call at the end of handle_messages (lines 293-295).
RmPop(s) ==
    LET n == NodeOf(s)
        id == tpeer[s].id
    IN
    /\ pc[s] = "rm_pop"
    /\ lock[n] = Free
    /\ rm_calls' = [rm_calls EXCEPT ![n][id] = @ + 1]
    /\ IF RemoveAbsent(n, id)
       THEN /\ pc' = [pc EXCEPT ![s] = "end"]
            /\ UNCHANGED <<registry, closed, rm_effects, tpeer>>
       ELSE /\ RemovePop(n, id)
            /\ tpeer' = [tpeer EXCEPT ![s].nick = PoppedNick(n, id),
                                      ![s].rsock = EntryOf(peers[n], id).sock]
            /\ pc' = [pc EXCEPT ![s] = "rm_notify"]
    /\ UNCHANGED <<nodeVars, conn, chan, taskVars, fileVars,
                   answered, events, fdat_sent, facc_from, loop_exit, byteVars>>

RmNotify(s) ==
    LET n == NodeOf(s) IN
    /\ pc[s] = "rm_notify"
    /\ \E ok \in BOOLEAN :
        /\ RemoveNotify(n, ConnTask(s), tpeer[s].nick, tpeer[s].rsock, ok)
        /\ pc' = [pc EXCEPT ![s] = IF ok THEN "end" ELSE "deadlock"]
    /\ UNCHANGED <<registry, nickname, running, listening, is_host, chat_history,
                   conn, closed, tpeer, taskVars, fileVars,
                   answered, events, fdat_sent, facc_from, rm_calls, loop_exit, byteVars>>

\* A reader that takes an empty payload for the end of the stream
\* ('if not data: break').
ReadFailsOnEmpty(s) ==
    \/ chan[s] = <<>> /\ closed[Other(s)]
    \/ chan[s] # <<>> /\ Head(chan[s]).data = <<>>

\* handle_messages, lines 208-218: receive_all returns None for the header, or
\* for a payload of declared length > 0, when the other end is closed and
\* nothing is left to read.
ReadFails(s) == chan[s] = <<>> /\ closed[Other(s)]

\* handle_messages leaves its loop (lines 203-218): the node stops, the stream is
\* closed, or the read fails.
InRegistry(n, id) ==
    \/ HasPeer(n, id)
    \/ id \in DOMAIN peer_nicks[n]
    \/ \E a \in DOMAIN connection_map[n] : connection_map[n][a] = id
\* What the maps hold for an id beside the entry of a stream registered for it.
Leftover(n, id) ==
    \/ id \in DOMAIN peer_nicks[n] /\ ~HasPeer(n, id)
    \/ \E a \in DOMAIN connection_map[n] :
          /\ connection_map[n][a] = id
          /\ ~HasPeer(n, id) \/ EntryOf(peers[n], id).addr # a

AfterLoop(s) == IF HasPeer(NodeOf(s), tpeer[s].id) THEN "rm_pop" ELSE "end"

LoopExit(s) ==
    LET n == NodeOf(s) IN
    /\ pc[s] = "loop"
    /\ ~running[n] \/ closed[s] \/ ReadFails(s)
    /\ pc' = [pc EXCEPT ![s] = AfterLoop(s)]
    /\ UNCHANGED <<registry, nodeVars, conn, chan, closed, tpeer, taskVars, fileVars, obsVars, byteVars>>

\* The thread of handle_messages ends.
TaskEnd(s) ==
    LET n == NodeOf(s) IN
    /\ pc[s] = "end"
    /\ pc' = [pc EXCEPT ![s] = "done"]
    /\ IF s \in Registered(n) \/ closed[s]
       THEN UNCHANGED closed
       ELSE \E b \in Dropped(s) : closed' = [closed EXCEPT ![s] = b]
    /\ loop_exit' = [loop_exit EXCEPT ![s] =
            IF Leftover(n, tpeer[s].id) THEN "kept"
            ELSE IF InRegistry(n, tpeer[s].id) THEN "again" ELSE "gone"]
    /\ UNCHANGED <<registry, nodeVars, conn, chan, tpeer, taskVars, fileVars,
                   answered, events, fdat_sent, facc_from, rm_calls, rm_effects, byteVars>>

\* One turn of the loop of handle_messages (lines 203-221): a frame is read.
Reads(s, t) ==
    /\ pc[s] = "loop"
    /\ running[NodeOf(s)]
    /\ ~closed[s]
    /\ chan[s] # <<>> /\ ~ReadFails(s)
    /\ Head(chan[s]).type = t

\* HEARTBEAT (lines 220-221) and PEER_LIST (lines 282-288): nothing but the
\* 'update_peers' event for the roster; json.loads raises for an empty payload,
\* which ends the loop.
DispatchBeat(s) ==
    /\ Reads(s, "BEAT")
    /\ chan' = [chan EXCEPT ![s] = Tail(@)]
    /\ UNCHANGED <<registry, nodeVars, conn, closed, pc, tpeer, taskVars, fileVars, obsVars, byteVars>>

GuiPeers(list) == [i \in 1..Len(list) |-> [address |-> <<list[i].host, list[i].port>>, nick |-> list[i].nick]]

DispatchPeerList(s) ==
    LET data == Head(chan[s]).data IN
    /\ Reads(s, "PERS")
    /\ chan' = [chan EXCEPT ![s] = Tail(@)]
    /\ pc' = [pc EXCEPT ![s] = IF data = <<>> THEN AfterLoop(s) ELSE @]
    /\ gui' = [gui EXCEPT ![NodeOf(s)].update_peers = IF data = <<>> THEN @ ELSE GuiPeers(data)]
    /\ UNCHANGED <<registry, nodeVars, conn, closed, tpeer, taskVars, fileVars, obsVars,
                   wire, rx, saved, tx>>

\* TEXT (lines 223-226).
DispatchText(s) ==
    LET n == NodeOf(s) IN
    /\ Reads(s, "TEXT")
    /\ Len(chat_history[n]) < MaxHist
    /\ chat_history' = [chat_history EXCEPT ![n] = Append(@, Head(chan[s]).data)]
    /\ chan' = [chan EXCEPT ![s] = Tail(@)]
    /\ UNCHANGED <<registry, nickname, running, listening, is_host, lock,
                   conn, closed, pc, tpeer, taskVars, fileVars, obsVars, byteVars>>

\* A frame no branch handles (lines 212, 290-291): MessageType(tag) raises
\* ValueError for a tag that is no member of the enum, which ends the loop; a
\* CONNECTION_ID frame falls through to the else branch and is skipped.
DispatchElse(s) ==
    /\ pc[s] = "loop" /\ running[NodeOf(s)] /\ ~closed[s]
    /\ chan[s] # <<>> /\ ~ReadFails(s)
    /\ Head(chan[s]).type \notin MessageType \/ Head(chan[s]).type = "CONN"
    /\ chan' = [chan EXCEPT ![s] = Tail(@)]
    /\ pc' = [pc EXCEPT ![s] = IF Head(chan[s]).type \in MessageType THEN @ ELSE AfterLoop(s)]
    /\ UNCHANGED <<registry, nodeVars, conn, closed, tpeer, taskVars, fileVars, obsVars, byteVars>>

\* NICK (lines 275-280): the nickname of the peer is written under the lock,
\* then the roster goes to every peer.
NickUpdateLost(nicks, id, newnick) == nicks

NickUpdate(nicks, id, newnick) == MapPut(nicks, id, newnick)

DispatchNick(s) ==
    LET n == NodeOf(s)
        nicks == NickUpdate(peer_nicks[n], tpeer[s].id, Head(chan[s]).data)
        list == <<Frame("PERS", Roster(n, peers[n], nicks))>>
    IN
    /\ Reads(s, "NICK")
    /\ lock[n] = Free
    /\ BroadcastRoom(peers[n], 1)
    /\ peer_nicks' = [peer_nicks EXCEPT ![n] = nicks]
    /\ \E k \in BroadcastOutcome(peers[n]) :
        /\ chan' = Broadcast([chan EXCEPT ![s] = Tail(@)], peers[n], list, k)
        /\ lock' = [lock EXCEPT ![n] = IF k = 0 THEN Free ELSE ConnTask(s)]
        /\ pc' = [pc EXCEPT ![s] = IF k = 0 THEN "loop" ELSE "deadlock"]
    /\ UNCHANGED <<peers, connection_map, nickname, running, listening, is_host, chat_history,
                   conn, closed, tpeer, taskVars, fileVars, obsVars, byteVars>>

\* CLEAR_HISTORY (lines 267-270): the history is emptied under the lock and the
\* 'clear_history' event goes to the callback.
DispatchClear(s) ==
    LET n == NodeOf(s) IN
    /\ Reads(s, "CLRH")
    /\ lock[n] = Free
    /\ chat_history' = [chat_history EXCEPT ![n] = <<>>]
    /\ gui' = [gui EXCEPT ![n].clear_history = @ + 1]
    /\ chan' = [chan EXCEPT ![s] = Tail(@)]
    /\ pc' = [pc EXCEPT ![s] = "clr_note"]
    /\ UNCHANGED <<registry, nickname, running, listening, is_host, lock,
                   conn, closed, tpeer, taskVars, fileVars, obsVars, wire, rx, saved, tx>>

\* CLEAR_HISTORY (lines 271-273): the notice is appended, outside the lock.
ClearNote(s) ==
    LET n == NodeOf(s) IN
    /\ pc[s] = "clr_note"
    /\ Len(chat_history[n]) < MaxHist
    /\ chat_history' = [chat_history EXCEPT ![n] = Append(@, <<"cleared">>)]
    /\ pc' = [pc EXCEPT ![s] = "loop"]
    /\ UNCHANGED <<registry, nickname, running, listening, is_host, lock,
                   conn, chan, closed, tpeer, taskVars, fileVars, obsVars, byteVars>>

\* The program at the far end of a link need not be a NetworkManager: any client
\* can open a stream to the listening socket (line 60) and write frames to it.
\* Such a client x opens a connection to node m and writes the frame f.
ForeignDial(x, m, f) ==
    /\ user[x].pc = "none"
    /\ todo[x].dial > 0
    /\ todo' = [todo EXCEPT ![x].dial = @ - 1]
    /\ listening[m]
    /\ \E c \in 1..MaxConn :
        /\ conn[c] = NoConn
        /\ \A b \in 1..MaxConn : b < c => conn[b] # NoConn
        /\ conn' = [conn EXCEPT ![c] = [dialer |-> x, acceptor |-> m, host |-> ServerIp(m),
                                          port |-> Port(m), by |-> "peer"]]
        /\ chan' = [chan EXCEPT ![<<c, "a">>] = <<f>>]
        /\ pc' = [pc EXCEPT ![<<c, "d">>] = "peer", ![<<c, "a">>] = "h_recv"]
    /\ UNCHANGED <<registry, nodeVars, closed, tpeer, connect_ret, user, beat,
                   fileVars, obsVars, byteVars>>

\* The client writes the frame f to its end w of the stream.
PeerWrites(w, f) ==
    /\ pc[w] = "peer" /\ ~closed[w]
    /\ todo[NodeOf(w)].write > 0
    /\ todo' = [todo EXCEPT ![NodeOf(w)].write = @ - 1]
    /\ Room(w, 1)
    /\ chan' = Deliver(chan, w, <<f>>)
    /\ UNCHANGED <<registry, nodeVars, conn, closed, pc, tpeer, connect_ret, user, beat,
                   fileVars, obsVars, byteVars>>

\* The client reads the next frame from its end w.
PeerReads(w) ==
    /\ pc[w] = "peer" /\ ~closed[w]
    /\ chan[w] # <<>>
    /\ chan' = [chan EXCEPT ![w] = Tail(@)]
    /\ UNCHANGED <<registry, nodeVars, conn, closed, pc, tpeer, taskVars, fileVars, obsVars, byteVars>>

----------------------------------------------------------------------------
\* File transfer, receive side.

\* handle_file_meta, lines 189-194: downloads/name, or the first of name_1,
\* name_2, ... that does not exist.
FreePath(files, name) ==
    LET k == CHOOSE k \in 0..Cardinality(DOMAIN files) :
                /\ <<name, k>> \notin DOMAIN files
                /\ \A j \in 0..(k - 1) : <<name, j>> \in DOMAIN files
    IN <<name, k>>

\* handle_file_meta, lines 195-196: open(path, 'wb') creates the file or
\* empties the one that is there, and the entry of the peer is written over; the
\* handle of an entry written over is dropped.
OpenFile(n, id, path, size) ==
    LET old == IF id \in DOMAIN current_files[n]
               THEN [downloads[n] EXCEPT ![current_files[n][id].path].open = FALSE]
               ELSE downloads[n]
    IN
    /\ downloads' = [downloads EXCEPT ![n] = MapPut(old, path, [data |-> <<>>, open |-> TRUE])]
    /\ current_files' = [current_files EXCEPT ![n] =
            MapPut(@, id, [path |-> path, size |-> size, received |-> 0])]

\* handle_file_meta (lines 184-197) run by one thread with no other beside it.
HandleFileMeta(n, id, meta) == OpenFile(n, id, FreePath(downloads[n], meta.name), meta.size)

\* FILE_META (lines 228-240) up to the path handle_file_meta settles on (lines
\* 186-194): a host passes the frame on to its other peers, write errors
\* ignored; json.loads (line 186) raises for an empty payload, which ends the
\* loop; else the first path that does not exist is chosen.
RECURSIVE Relay(_, _, _, _)
Relay(ch, ps, id, f) ==
    IF ps = <<>> THEN ch
    ELSE LET e == Head(ps) IN
         Relay(IF e.id = id \/ closed[e.sock] THEN ch ELSE Deliver(ch, e.sock, <<f>>),
               Tail(ps), id, f)

DispatchFileMeta(s) ==
    LET n == NodeOf(s)
        id == tpeer[s].id
        f == Head(chan[s])
    IN
    /\ Reads(s, "FMTA")
    /\ IF is_host[n]
       THEN /\ lock[n] = Free
            /\ BroadcastRoom(peers[n], 1)
            /\ chan' = Relay([chan EXCEPT ![s] = Tail(@)], peers[n], id, f)
       ELSE chan' = [chan EXCEPT ![s] = Tail(@)]
    /\ IF f.data = <<>>
       THEN /\ pc' = [pc EXCEPT ![s] = AfterLoop(s)]
            /\ UNCHANGED tpeer
       ELSE /\ tpeer' = [tpeer EXCEPT ![s].opening =
                    [path |-> FreePath(downloads[n], f.data.name), size |-> f.data.size]]
            /\ pc' = [pc EXCEPT ![s] = "meta_open"]
    /\ UNCHANGED <<registry, nodeVars, conn, closed, taskVars, fileVars, obsVars, byteVars>>

\* handle_file_meta, lines 195-197, in the thread of a dispatcher: the file is
\* opened under the path the loop of lines 192-194 found free, whatever has
\* become of that path since; then the offer is put to the callback.
FileMetaOpen(s) ==
    LET n == NodeOf(s)
        o == tpeer[s].opening
    IN
    /\ pc[s] = "meta_open"
    /\ OpenFile(n, tpeer[s].id, o.path, o.size)
    /\ tpeer' = [tpeer EXCEPT ![s].opening = NoOpening]
    /\ pc' = [pc EXCEPT ![s] = "ask"]
    /\ UNCHANGED <<registry, nodeVars, conn, chan, closed, taskVars, pending_file, ftasks, obsVars, byteVars>>

\* A dispatcher that looks the entry up with current_files[peer_id]: KeyError
\* ends its loop.
MissingEntryRaises(s) ==
    /\ pc' = [pc EXCEPT ![s] = AfterLoop(s)]
    /\ UNCHANGED <<current_files, downloads, events>>

\* Lines 257-258: current_files.get(peer_id) gives None and the branch does
\* nothing.
MissingEntry(s) == UNCHANGED <<current_files, downloads, events, pc>>

\* FILE_DATA (lines 256-265).  Writing to a handle that was closed raises, which
\* ends the loop of handle_messages.
DispatchFileData(s) ==
    LET n == NodeOf(s)
        id == tpeer[s].id
        data == Head(chan[s]).data
    IN
    /\ Reads(s, "FDAT")
    /\ chan' = [chan EXCEPT ![s] = Tail(@)]
    /\ IF id \notin DOMAIN current_files[n]
       THEN MissingEntry(s)
       ELSE LET info == current_files[n][id]
                got == info.received + Len(data)
            IN
            IF ~downloads[n][info.path].open
            THEN /\ pc' = [pc EXCEPT ![s] = AfterLoop(s)]
                 /\ UNCHANGED <<current_files, downloads, events>>
            ELSE /\ downloads' = [downloads EXCEPT ![n][info.path] =
                        [data |-> @.data \o data, open |-> got < info.size]]
                 /\ current_files' = [current_files EXCEPT ![n] =
                        IF got >= info.size THEN MapDel(@, id)
                        ELSE [@ EXCEPT ![id].received = got]]
                 /\ events' = [events EXCEPT ![n] = IF got >= info.size THEN @ \cup {info.path} ELSE @]
                 /\ UNCHANGED pc
    /\ UNCHANGED <<registry, nodeVars, conn, closed, tpeer, taskVars, pending_file, ftasks,
                   answered, fdat_sent, facc_from, rm_calls, rm_effects, loop_exit, byteVars>>

\* The 'file_request' callback asks the user and calls respond_file (lines
\* 424-432) before the loop of handle_messages goes on.  respond_file raises for
\* a peer that is no longer registered and, on accept, for a peer without a
\* receive-side entry; the write of the answer may raise as well.  What it
\* raises ends the loop.
RespondFile(s, accept) ==
    LET n == NodeOf(s)
        id == tpeer[s].id
        sock == EntryOf(peers[n], id).sock
        name == IF id \in DOMAIN current_files[n] THEN current_files[n][id].path[1] ELSE NoFile
    IN
    /\ pc[s] = "ask"
    /\ IF ~HasPeer(n, id) \/ (accept /\ id \notin DOMAIN current_files[n])
       THEN /\ pc' = [pc EXCEPT ![s] = AfterLoop(s)]
            /\ UNCHANGED <<chan, answered>>
       ELSE /\ answered' = [answered EXCEPT ![n] =
                    @ \cup {<<id, name, IF accept THEN "accept" ELSE "decline">>}]
            /\ \/ /\ ~MustFail(sock)
                  /\ Room(sock, 1)
                  /\ chan' = Deliver(chan, sock, <<Frame(IF accept THEN "FACC" ELSE "FDEC", <<>>)>>)
                  /\ pc' = [pc EXCEPT ![s] = "loop"]
               \/ /\ CanFail(sock)
                  /\ pc' = [pc EXCEPT ![s] = AfterLoop(s)]
                  /\ UNCHANGED chan
    /\ UNCHANGED <<registry, nodeVars, conn, closed, tpeer, taskVars, fileVars,
                   events, fdat_sent, facc_from, rm_calls, rm_effects, loop_exit, byteVars>>

----------------------------------------------------------------------------
\* File transfer, send side.

\* send_file (lines 400-412): the one pending slot is written, then the offer
\* goes to every peer.
SendFile(n, f) ==
    LET meta == <<Frame("FMTA", [name |-> f, size |-> Len(FileBytes(f))])>> IN
    /\ user[n].pc = "idle"
    /\ todo[n].file > 0
    /\ todo' = [todo EXCEPT ![n].file = @ - 1]
    /\ lock[n] = Free
    /\ BroadcastRoom(peers[n], 1)
    /\ pending_file' = [pending_file EXCEPT ![n] = f]
    /\ \E k \in BroadcastOutcome(peers[n]) :
        /\ chan' = Broadcast(chan, peers[n], meta, k)
        /\ lock' = [lock EXCEPT ![n] = IF k = 0 THEN Free ELSE UserTask]
        /\ user' = [user EXCEPT ![n].pc = IF k = 0 THEN "idle" ELSE "deadlock"]
    /\ UNCHANGED <<registry, nickname, running, listening, is_host, chat_history,
                   conn, closed, pc, tpeer, connect_ret, beat,
                   current_files, downloads, ftasks, obsVars, byteVars>>

\* FILE_ACCEPT (lines 243-248) and FILE_DECLINE (lines 250-254): the notice goes
\* to every peer; an accept starts a _send_file_data thread for the peer.
Answer(s, accept) ==
    LET n == NodeOf(s)
        id == tpeer[s].id
        nick == IF id \in DOMAIN peer_nicks[n] THEN peer_nicks[n][id] ELSE <<"?", 0>>
        note == <<Frame("TEXT", <<IF accept THEN "got" ELSE "refused", nick>>)>>
    IN
    /\ lock[n] = Free
    /\ BroadcastRoom(peers[n], 2)
    /\ \E k \in BroadcastOutcome(peers[n]) :
        /\ chan' = Broadcast([chan EXCEPT ![s] = Tail(@)], peers[n], note, k)
        /\ lock' = [lock EXCEPT ![n] = IF k = 0 THEN Free ELSE ConnTask(s)]
        /\ pc' = [pc EXCEPT ![s] = IF k = 0 THEN "loop" ELSE "deadlock"]
        /\ ftasks' = [ftasks EXCEPT ![n] =
                IF accept /\ k = 0
                THEN Append(@, [peer |-> id, pc |-> "new", sock |-> NoSock, file |-> NoFile, off |-> 0])
                ELSE @]
    /\ facc_from' = [facc_from EXCEPT ![n] = IF accept THEN @ \cup {id} ELSE @]
    /\ UNCHANGED <<registry, nickname, running, listening, is_host, chat_history,
                   conn, closed, tpeer, taskVars, pending_file, current_files, downloads,
                   answered, events, fdat_sent, rm_calls, rm_effects, loop_exit, byteVars>>

\* A FILE_ACCEPT branch that raises when no offer is pending, which ends the
\* loop of handle_messages.
StrayAcceptRaises(s) ==
    /\ Reads(s, "FACC")
    /\ IF pending_file[NodeOf(s)] # NoFile
       THEN Answer(s, TRUE)
       ELSE /\ chan' = [chan EXCEPT ![s] = Tail(@)]
            /\ pc' = [pc EXCEPT ![s] = AfterLoop(s)]
            /\ UNCHANGED <<registry, nodeVars, conn, closed, tpeer, taskVars, fileVars,
                           obsVars, byteVars>>

DispatchFileAccept(s) == Reads(s, "FACC") /\ Answer(s, TRUE)
DispatchFileDecline(s) == Reads(s, "FDEC") /\ Answer(s, FALSE)

Without(q, i) == SubSeq(q, 1, i - 1) \o SubSeq(q, i + 1, Len(q))

\* _send_file_data, lines 416-417: the stream of the peer and the pending file are
\* looked up when the thread runs; it dies when either is missing.
FileStart(n, i) ==
    /\ i \in 1..Len(ftasks[n])
    /\ ftasks[n][i].pc = "new"
    /\ ftasks' = [ftasks EXCEPT ![n] =
            IF ~HasPeer(n, @[i].peer) \/ pending_file[n] = NoFile
            THEN Without(@, i)
            ELSE [@ EXCEPT ![i] = [peer |-> @.peer, pc |-> "send",
                                   sock |-> PeerEntry(peers[n], @.peer).sock,
                                   file |-> pending_file[n], off |-> 0]]]
    /\ UNCHANGED <<registry, nodeVars, netVars, taskVars, pending_file, current_files,
                   downloads, obsVars, byteVars>>

\* Where a chunk written by a _send_file_data thread goes (line 422).
ChunkTargets(n, sock) == <<[id |-> "-", sock |-> sock, addr |-> <<"-", 0>>]>>

\* _send_file_data, lines 418-422: the next chunk of at most ChunkSize bytes.
FileChunk(n, i) ==
    LET t == ftasks[n][i]
        bytes == FileBytes(t.file)
        upto == IF t.off + ChunkSize < Len(bytes) THEN t.off + ChunkSize ELSE Len(bytes)
        chunk == <<Frame("FDAT", SubSeq(bytes, t.off + 1, upto))>>
        to == ChunkTargets(n, t.sock)
    IN
    /\ i \in 1..Len(ftasks[n])
    /\ t.pc = "send"
    /\ IF t.off >= Len(bytes)
       THEN /\ ftasks' = [ftasks EXCEPT ![n] = Without(@, i)]
            /\ UNCHANGED <<chan, fdat_sent>>
       ELSE \/ /\ \A j \in 1..Len(to) : ~MustFail(to[j].sock)
               /\ BroadcastRoom(to, 1)
               /\ ftasks' = [ftasks EXCEPT ![n][i].off = upto]
               /\ chan' = Broadcast(chan, to, chunk, 0)
               /\ fdat_sent' = [fdat_sent EXCEPT ![n] = @ \cup {to[j].sock : j \in 1..Len(to)}]
            \/ /\ \E j \in 1..Len(to) : CanFail(to[j].sock)
               /\ ftasks' = [ftasks EXCEPT ![n] = Without(@, i)]
               /\ UNCHANGED <<chan, fdat_sent>>
    /\ UNCHANGED <<registry, nodeVars, conn, closed, pc, tpeer, taskVars, pending_file,
                   current_files, downloads,
                   answered, events, facc_from, rm_calls, rm_effects, loop_exit, byteVars>>

----------------------------------------------------------------------------
\* The other public methods.

\* handle_file_meta called directly, as the unit test does.
HandleFileMetaCall(n, id, meta) ==
    /\ user[n].pc = "idle"
    /\ todo[n].meta > 0
    /\ todo' = [todo EXCEPT ![n].meta = @ - 1]
    /\ HandleFileMeta(n, id, meta)
    /\ UNCHANGED <<registry, nodeVars, netVars, connect_ret, user, beat, pending_file,
                   ftasks, obsVars, byteVars>>

\* handle_file_data (lines 382-392).  The write raises on a closed handle; on
\* completion the file is closed and the lookup info['name'] raises KeyError,
\* for the entries handle_file_meta makes have no such key: no event, and the
\* del statement is not reached.
HandleFileData(n, id, data) ==
    /\ user[n].pc = "idle"
    /\ todo[n].data > 0
    /\ todo' = [todo EXCEPT ![n].data = @ - 1]
    /\ IF id \notin DOMAIN current_files[n]
       THEN UNCHANGED <<current_files, downloads>>
       ELSE LET info == current_files[n][id]
                got == info.received + Len(data)
            IN
            IF ~downloads[n][info.path].open
            THEN UNCHANGED <<current_files, downloads>>
            ELSE /\ downloads' = [downloads EXCEPT ![n][info.path] =
                        [data |-> @.data \o data, open |-> got < info.size]]
                 /\ current_files' = [current_files EXCEPT ![n][id].received = got]
    /\ UNCHANGED <<registry, nodeVars, netVars, connect_ret, user, beat, pending_file,
                   ftasks, obsVars, byteVars>>

\* send_text (lines 395-398).
SendText(n) ==
    LET line == <<"says", nickname[n]>> IN
    /\ user[n].pc = "idle"
    /\ todo[n].text > 0
    /\ todo' = [todo EXCEPT ![n].text = @ - 1]
    /\ Len(chat_history[n]) < MaxHist
    /\ lock[n] = Free
    /\ BroadcastRoom(peers[n], 1)
    /\ chat_history' = [chat_history EXCEPT ![n] = Append(@, line)]
    /\ \E k \in BroadcastOutcome(peers[n]) :
        /\ chan' = Broadcast(chan, peers[n], <<Frame("TEXT", line)>>, k)
        /\ lock' = [lock EXCEPT ![n] = IF k = 0 THEN Free ELSE UserTask]
        /\ user' = [user EXCEPT ![n].pc = IF k = 0 THEN "idle" ELSE "deadlock"]
    /\ UNCHANGED <<registry, nickname, running, listening, is_host,
                   conn, closed, pc, tpeer, connect_ret, beat, fileVars, obsVars, byteVars>>

\* clear_history, lines 449-451: the history is emptied under the lock and the
\* 'clear_history' event goes to the callback.
ClearHistory(n) ==
    /\ user[n].pc = "idle"
    /\ todo[n].clear > 0
    /\ todo' = [todo EXCEPT ![n].clear = @ - 1]
    /\ lock[n] = Free
    /\ chat_history' = [chat_history EXCEPT ![n] = <<>>]
    /\ gui' = [gui EXCEPT ![n].clear_history = @ + 1]
    /\ user' = [user EXCEPT ![n].pc = "clear_send"]
    /\ UNCHANGED <<registry, nickname, running, listening, is_host, lock, netVars,
                   connect_ret, beat, fileVars, obsVars, wire, rx, saved, tx>>

\* clear_history, lines 452-458: under the lock the CLRH header is written to
\* every registered peer, write errors ignored.
ClearSend(n) ==
    /\ user[n].pc = "clear_send"
    /\ lock[n] = Free
    /\ BroadcastRoom(peers[n], 1)
    /\ chan' = Relay(chan, peers[n], "-", Frame("CLRH", <<>>))
    /\ user' = [user EXCEPT ![n].pc = "clear_note"]
    /\ UNCHANGED <<registry, nodeVars, conn, closed, pc, tpeer,
                   connect_ret, beat, todo, fileVars, obsVars, byteVars>>

\* clear_history, lines 459-462: the notice is appended under the lock.
ClearDone(n) ==
    /\ user[n].pc = "clear_note"
    /\ lock[n] = Free
    /\ Len(chat_history[n]) < MaxHist
    /\ chat_history' = [chat_history EXCEPT ![n] = Append(@, <<"cleared">>)]
    /\ user' = [user EXCEPT ![n] = Idle]
    /\ UNCHANGED <<registry, nickname, running, listening, is_host, lock, netVars,
                   connect_ret, beat, todo, fileVars, obsVars, byteVars>>

\* change_nickname (lines 464-468): the new name is kept and goes to every peer.
ChangeNickname(n, new_nick) ==
    /\ user[n].pc = "idle"
    /\ todo[n].nick > 0
    /\ todo' = [todo EXCEPT ![n].nick = @ - 1]
    /\ lock[n] = Free
    /\ BroadcastRoom(peers[n], 1)
    /\ nickname' = [nickname EXCEPT ![n] = new_nick]
    /\ \E k \in BroadcastOutcome(peers[n]) :
        /\ chan' = Broadcast(chan, peers[n], <<Frame("NICK", new_nick)>>, k)
        /\ lock' = [lock EXCEPT ![n] = IF k = 0 THEN Free ELSE UserTask]
        /\ user' = [user EXCEPT ![n].pc = IF k = 0 THEN "idle" ELSE "deadlock"]
    /\ UNCHANGED <<registry, running, listening, is_host, chat_history,
                   conn, closed, pc, tpeer, connect_ret, beat, fileVars, obsVars, byteVars>>

\* get_peer_list (lines 309-317): what the 'update_peers' event shows.
GetPeerList(n) ==
    [i \in 1..Len(peers[n]) |->
        [address |-> peers[n][i].addr,
         nick |-> IF peers[n][i].id \in DOMAIN peer_nicks[n] THEN peer_nicks[n][peers[n][i].id]
                  ELSE <<"User", peers[n][i].addr[2]>>]]
    \o <<[address |-> <<ServerIp(n), Port(n)>>, nick |-> nickname[n]]>>

\* One round of heartbeat (lines 470-479).
Heartbeat(n) ==
    /\ beat[n] = "run"
    /\ running[n]
    /\ todo[n].beat > 0
    /\ todo' = [todo EXCEPT ![n].beat = @ - 1]
    /\ lock[n] = Free
    /\ BroadcastRoom(peers[n], 1)
    /\ \E k \in BroadcastOutcome(peers[n]) :
        /\ chan' = Broadcast(chan, peers[n], <<Frame("BEAT", <<>>)>>, k)
        /\ lock' = [lock EXCEPT ![n] = IF k = 0 THEN Free ELSE BeatTask]
        /\ beat' = [beat EXCEPT ![n] = IF k = 0 THEN "run" ELSE "deadlock"]
    /\ UNCHANGED <<registry, nickname, running, listening, is_host, chat_history,
                   conn, closed, pc, tpeer, connect_ret, user, fileVars, obsVars, byteVars>>

\* remove_peer called from outside the class, as the unit test does.
UserRemove(n, id) ==
    /\ user[n].pc = "idle"
    /\ todo[n].remove > 0
    /\ todo' = [todo EXCEPT ![n].remove = @ - 1]
    /\ lock[n] = Free
    /\ rm_calls' = [rm_calls EXCEPT ![n][id] = @ + 1]
    /\ IF RemoveAbsent(n, id)
       THEN UNCHANGED <<registry, closed, rm_effects, user>>
       ELSE /\ RemovePop(n, id)
            /\ user' = [user EXCEPT ![n] = [pc |-> "rm_notify", id |-> id,
                                            nick |-> PoppedNick(n, id),
                                            rsock |-> EntryOf(peers[n], id).sock]]
    /\ UNCHANGED <<nodeVars, conn, chan, pc, tpeer, connect_ret, beat, fileVars,
                   answered, events, fdat_sent, facc_from, loop_exit, byteVars>>

UserRmNotify(n) ==
    /\ user[n].pc = "rm_notify"
    /\ \E ok \in BOOLEAN :
        /\ RemoveNotify(n, UserTask, user[n].nick, user[n].rsock, ok)
        /\ user' = [user EXCEPT ![n] = IF ok THEN Idle ELSE [@ EXCEPT !.pc = "deadlock"]]
    /\ UNCHANGED <<registry, nickname, running, listening, is_host, chat_history,
                   conn, closed, pc, tpeer, connect_ret, beat, todo, fileVars,
                   answered, events, fdat_sent, facc_from, rm_calls, loop_exit, byteVars>>

\* stop (lines 505-514) up to the lock.
StopBegin(n) ==
    /\ user[n].pc = "idle"
    /\ todo[n].stop > 0
    /\ todo' = [todo EXCEPT ![n].stop = @ - 1]
    /\ running' = [running EXCEPT ![n] = FALSE]
    /\ listening' = [listening EXCEPT ![n] = FALSE]
    /\ user' = [user EXCEPT ![n].pc = "stop"]
    /\ UNCHANGED <<registry, nickname, is_host, chat_history, lock, netVars,
                   connect_ret, beat, fileVars, obsVars, byteVars>>

\* stop, lines 512-514: remove_peer is called for the first id with the lock
\* held, and waits for that lock.
StopLock(n) ==
    /\ user[n].pc = "stop"
    /\ lock[n] = Free
    /\ IF peers[n] = <<>>
       THEN /\ user' = [user EXCEPT ![n] = Idle]
            /\ UNCHANGED lock
       ELSE /\ user' = [user EXCEPT ![n].pc = "deadlock"]
            /\ lock' = [lock EXCEPT ![n] = UserTask]
    /\ UNCHANGED <<registry, nickname, running, listening, is_host, chat_history,
                   netVars, connect_ret, beat, todo, fileVars, obsVars, byteVars>>

----------------------------------------------------------------------------
\* Two nodes that dial each other and themselves, by address or by alias.
Init == Fresh({"A", "B"}, Calls({"A", "B"}, [NoCalls EXCEPT !.dial = MaxConn]))

Dialled == {"A", "B"}
Next ==
    \/ \E n \in Node : \E m \in Dialled : \E h \in {ServerIp(m), Alias(m)} : ConnectToPeer(n, h, Port(m))
    \/ \E s \in Sock : HandshakeRecv(s)
    \/ \E s \in Sock : HandshakeRegister(s)
    \/ \E s \in Sock : HandshakeReplay(s)
    \/ \E s \in Sock : ConnectFinish(s)
    \/ \E s \in Sock : DispatchPeerList(s)
    \/ \E s \in Sock : DispatchText(s)
    \/ \E s \in Sock : LoopExit(s)
    \/ \E s \in Sock : RmPop(s)
    \/ \E s \in Sock : RmNotify(s)
    \/ \E s \in Sock : TaskEnd(s)

Spec == Init /\ [][Next]_vars

\* The two links of a crossed dial: c from A to B, d from B to A.
Crossed(c, d) ==
    /\ conn[c].dialer = "A" /\ conn[c].acceptor = "B"
    /\ conn[d].dialer = "B" /\ conn[d].acceptor = "A"
Settled(c) == \A x \in Side : pc[<<c, x>>] \in {"h_replay", "loop", "done"}
Survives(c) ==
    /\ \A x \in Side : ~closed[<<c, x>>]
    /\ \A x \in Side :
        LET n == NodeOf(<<c, x>>)
            m == NodeOf(<<c, IF x = "d" THEN "a" ELSE "d">>)
        IN /\ Len(SelectSeq(peers[n], LAMBDA e : e.id = ConnectionId(m))) = 1
           /\ EntryOf(peers[n], ConnectionId(m)).sock = <<c, x>>
Rejected(c) == \E x \in Side : closed[<<c, x>>] /\ <<c, x>> \notin Registered(NodeOf(<<c, x>>))
NoRemoval == \A n, m \in Node : rm_calls[n][m] = 0

\* C1: when A and B have dialled each other and both handshakes are settled,
\* exactly one of the two links is rejected and the other one is the open
\* stream that each registry holds as its one entry for the other node.
C1_CrossedDialKeepsOneLink ==
    \A c, d \in 1..MaxConn :
        (Crossed(c, d) /\ Settled(c) /\ Settled(d) /\ NoRemoval)
            => \/ Survives(c) /\ Rejected(d)
               \/ Survives(d) /\ Rejected(c)

\* C5: when the thread of handle_messages has ended, the three maps of the
\* registry hold nothing for its peer id (the entry of a stream that registered
\* the same id anew is not counted).
C5_ExitedLoopLeavesNoEntry == \A s \in Sock : loop_exit[s] # "kept"

\* The three maps of node n tell the same story.
MapsAgree(n) ==
    /\ PeerIds(peers[n]) = DOMAIN peer_nicks[n]
    /\ \A a \in DOMAIN connection_map[n] :
          /\ HasPeer(n, connection_map[n][a])
          /\ PeerEntry(peers[n], connection_map[n][a]).addr = a
    /\ \A i \in 1..Len(peers[n]) :
          /\ peers[n][i].addr \in DOMAIN connection_map[n]
          /\ connection_map[n][peers[n][i].addr] = peers[n][i].id

\* C13: whenever no task is inside a section guarded by the registry lock,
\* peers and peer_nicks have the same keys and connection_map maps exactly the
\* addresses of the registered peers to their ids.
C13_RegistryMapsAgree == \A n \in Node : lock[n] = Free => MapsAgree(n)

----------------------------------------------------------------------------
\* One node that dials itself, by address or by alias, and its neighbour.
InitSelf == Fresh({"A", "B"}, Calls({"A"}, [NoCalls EXCEPT !.dial = MaxConn]))

NextSelf ==
    \/ \E h \in {ServerIp("A"), Alias("A")} : ConnectToPeer("A", h, Port("A"))
    \/ \E h \in {ServerIp("B"), Alias("B")} : ConnectToPeer("A", h, Port("B"))
    \/ \E s \in Sock : HandshakeRecv(s)
    \/ \E s \in Sock : HandshakeRegister(s)
    \/ \E s \in Sock : HandshakeReplay(s)
    \/ \E s \in Sock : ConnectFinish(s)
    \/ \E s \in Sock : DispatchPeerList(s)
    \/ \E s \in Sock : DispatchText(s)

SpecSelf == InitSelf /\ [][NextSelf]_vars

SelfLink(c) == conn[c] # NoConn /\ conn[c].dialer = conn[c].acceptor
OwnAddress(n, r) == n \in Owner(r.host, r.port)
\* A step of a connect_to_peer call of node n towards its own listening socket,
\* or of the handshake that serves it.
SelfDialStep(n) ==
    \/ \E c \in 1..MaxConn : /\ conn'[c] # NoConn
                             /\ conn'[c].dialer = n /\ conn'[c].acceptor = n
                             /\ \E x \in Side : pc'[<<c, x>>] # pc[<<c, x>>]
    \/ /\ todo'[n].dial # todo[n].dial
       /\ conn' = conn
       /\ OwnAddress(n, connect_ret'[n])
RegistryOf(n) == <<peers[n], connection_map[n], peer_nicks[n]>>

\* C10: no registry map ever holds the node's own id, connect_to_peer towards
\* the node's own listening socket returns False, and no step of such a call
\* changes the node's registry.
C10_NoSelfPeer ==
    /\ [](\A n \in Node :
            /\ ~InRegistry(n, ConnectionId(n))
            /\ (connect_ret[n].val # "none" /\ OwnAddress(n, connect_ret[n]))
                    => connect_ret[n].val = "False")
    /\ [][\A n \in Node : SelfDialStep(n) => RegistryOf(n)' = RegistryOf(n)]_vars

\* C10 witness: a dial of the node's own socket went through the handshake,
\* was refused there and returned False.
C10_Witness ==
    \E c \in 1..MaxConn :
        /\ SelfLink(c)
        /\ pc[<<c, "d">>] = "done" /\ pc[<<c, "a">>] = "done"
        /\ connect_ret[conn[c].dialer] = [host |-> conn[c].host, port |-> conn[c].port, val |-> "False"]

----------------------------------------------------------------------------
\* What is left when the nodes of the sequence ls have dialled B, one after the
\* other, and every frame of the handshakes has been read: B is the host and
\* holds them all, each of them holds B.
Index(ls, n) == CHOOSE i \in 1..Len(ls) : ls[i] = n
Leaves(ls) == {ls[i] : i \in 1..Len(ls)}
LinkEntry(m, s) == [id |-> ConnectionId(m), sock |-> s, addr |-> <<ServerIp(m), Port(m)>>]
LinkPeer(m) == [id |-> ConnectionId(m), nick |-> DefaultNick(m),
                addr |-> <<ServerIp(m), Port(m)>>, rsock |-> NoSock, opening |-> NoOpening]
Joined(m) == <<"joined", DefaultNick(m)>>
Linked(ls) ==
    /\ peers = [n \in Node |->
            IF n = "B" THEN [i \in 1..Len(ls) |-> LinkEntry(ls[i], <<i, "a">>)]
            ELSE IF n \in Leaves(ls) THEN <<LinkEntry("B", <<Index(ls, n), "d">>)>>
            ELSE <<>>]
    /\ connection_map = [n \in Node |->
            IF n = "B" THEN [a \in {<<ServerIp(m), Port(m)>> : m \in Leaves(ls)} |->
                                ConnectionId(CHOOSE m \in Leaves(ls) : a = <<ServerIp(m), Port(m)>>)]
            ELSE IF n \in Leaves(ls) THEN (<<ServerIp("B"), Port("B")>> :> ConnectionId("B"))
            ELSE EmptyMap]
    /\ peer_nicks = [n \in Node |->
            IF n = "B" THEN [id \in {ConnectionId(m) : m \in Leaves(ls)} |->
                                DefaultNick(CHOOSE m \in Leaves(ls) : id = ConnectionId(m))]
            ELSE IF n \in Leaves(ls) THEN (ConnectionId("B") :> DefaultNick("B"))
            ELSE EmptyMap]
    /\ nickname = [n \in Node |-> DefaultNick(n)]
    /\ running = [n \in Node |-> n \in Leaves(ls) \cup {"B"}]
    /\ listening = [n \in Node |-> n \in Leaves(ls) \cup {"B"}]
    /\ is_host = [n \in Node |-> n \notin Leaves(ls)]
    /\ chat_history = [n \in Node |->
            IF n = "B" THEN [i \in 1..Len(ls) |-> Joined(ls[i])]
            ELSE IF n \in Leaves(ls)
            THEN <<Joined("B")>> \o [i \in 1..Index(ls, n) |-> Joined(ls[i])]
            ELSE <<>>]
    /\ lock = [n \in Node |-> Free]
    /\ conn = [c \in 1..MaxConn |->
            IF c <= Len(ls) THEN [dialer |-> ls[c], acceptor |-> "B",
                                  host |-> ServerIp("B"), port |-> Port("B"), by |-> "user"]
            ELSE NoConn]
    /\ chan = [s \in Sock |-> <<>>]
    /\ closed = [s \in Sock |-> FALSE]
    /\ pc = [s \in Sock |-> IF s[1] <= Len(ls) THEN "loop" ELSE "unused"]
    /\ tpeer = [s \in Sock |->
            IF s[1] > Len(ls) THEN NoPeer
            ELSE IF s[2] = "d" THEN LinkPeer("B")
            ELSE LinkPeer(ls[s[1]])]
    /\ connect_ret = [n \in Node |->
            IF n \in Leaves(ls) THEN [host |-> ServerIp("B"), port |-> Port("B"), val |-> "True"]
            ELSE NoRet]
    /\ user = [n \in Node |-> IF n \in Leaves(ls) \cup {"B"} THEN Idle ELSE Absent]
    /\ beat = [n \in Node |-> IF n \in Leaves(ls) \cup {"B"} THEN "run" ELSE "none"]
    /\ pending_file = [n \in Node |-> NoFile]
    /\ current_files = [n \in Node |-> EmptyMap]
    /\ downloads = [n \in Node |-> EmptyMap]
    /\ ftasks = [n \in Node |-> <<>>]
    /\ answered = [n \in Node |-> {}]
    /\ events = [n \in Node |-> {}]
    /\ fdat_sent = [n \in Node |-> {}]
    /\ facc_from = [n \in Node |-> {}]
    /\ rm_calls = [n \in Node |-> [m \in Node |-> 0]]
    /\ rm_effects = [s \in Sock \cup {NoSock} |-> NoEffect]
    /\ loop_exit = [s \in Sock |-> "-"]
    /\ wire = NoWire
    /\ rx = NoReader
    /\ saved = <<>>
    /\ gui = [n \in Node |-> NoGui]
    /\ tx = NoTx

Star == Linked(<<"A", "C">>)
Pair == Linked(<<"A">>)

\* A and C dial B and nothing else happens: the way into the star.
InitGossip == Fresh({"A", "B", "C"}, Calls({"A", "C"}, [NoCalls EXCEPT !.dial = 1]))

NextGossip ==
    \/ \E n \in {"A", "C"} : ConnectToPeer(n, ServerIp("B"), Port("B"))
    \/ \E s \in Sock : HandshakeRecv(s)
    \/ \E s \in Sock : HandshakeRegister(s)
    \/ \E s \in Sock : HandshakeReplay(s)
    \/ \E s \in Sock : ConnectFinish(s)
    \/ \E s \in Sock : DispatchPeerList(s)
    \/ \E s \in Sock : DispatchText(s)

Fairness ==
    /\ \A s \in Sock : WF_vars(HandshakeRecv(s)) /\ WF_vars(HandshakeRegister(s))
    /\ \A s \in Sock : WF_vars(HandshakeReplay(s)) /\ WF_vars(ConnectFinish(s))
    /\ \A s \in Sock : WF_vars(DispatchPeerList(s)) /\ WF_vars(DispatchText(s))
    /\ \A n \in {"A", "C"} : WF_vars(ConnectToPeer(n, ServerIp("B"), Port("B")))

SpecGossip == InitGossip /\ [][NextGossip]_vars /\ Fairness

Connected(n, m) == HasPeer(n, ConnectionId(m)) /\ HasPeer(m, ConnectionId(n))
Quiet == \A s \in Sock : chan[s] = <<>> /\ pc[s] \in {"loop", "unused"}

\* C2: once A-B and B-C are connected and every roster B has sent has been read,
\* a connection between A and C is eventually established and each registry
\* holds the other two nodes.
C2_GossipConverges ==
    (Connected("A", "B") /\ Connected("B", "C") /\ Quiet)
        ~> (Connected("A", "B") /\ Connected("B", "C") /\ Connected("A", "C"))

----------------------------------------------------------------------------
\* The star, and then B and A call stop; before that A may say something and
\* the heartbeat of B may come round.
InitStop ==
    Star /\ todo = [n \in Node |->
        CASE n = "A" -> [NoCalls EXCEPT !.stop = 1, !.text = 1]
          [] n = "B" -> [NoCalls EXCEPT !.stop = 1, !.beat = 1]
          [] OTHER -> NoCalls]

NextStop ==
    \/ \E n \in Node : StopBegin(n)
    \/ \E n \in Node : StopLock(n)
    \/ \E n \in Node : SendText(n)
    \/ \E n \in Node : Heartbeat(n)
    \/ \E s \in Sock : DispatchBeat(s)
    \/ \E s \in Sock : LoopExit(s)
    \/ \E s \in Sock : RmPop(s)
    \/ \E s \in Sock : RmNotify(s)
    \/ \E s \in Sock : TaskEnd(s)
    \/ \E s \in Sock : DispatchPeerList(s)
    \/ \E s \in Sock : DispatchText(s)

FairStop ==
    /\ \A n \in Node : WF_vars(StopBegin(n)) /\ WF_vars(StopLock(n))
    /\ \A s \in Sock : WF_vars(LoopExit(s)) /\ WF_vars(RmPop(s)) /\ WF_vars(RmNotify(s))
    /\ \A s \in Sock : WF_vars(TaskEnd(s)) /\ WF_vars(DispatchPeerList(s)) /\ WF_vars(DispatchText(s))
    /\ \A s \in Sock : WF_vars(DispatchBeat(s))

SpecStop == InitStop /\ [][NextStop]_vars /\ FairStop

Streams(n) == {s \in Sock : pc[s] # "unused" /\ NodeOf(s) = n}
Stopped(n) ==
    /\ user[n].pc = "idle"
    /\ ~running[n] /\ ~listening[n]
    /\ peers[n] = <<>> /\ peer_nicks[n] = EmptyMap /\ connection_map[n] = EmptyMap
    /\ \A s \in Streams(n) : closed[s]

\* C3: a call of stop returns, and then the node is not running, its listening
\* socket and every peer stream are closed and the three registry maps are empty.
C3_StopTerminatesClean == \A n \in Node : (user[n].pc = "stop") ~> Stopped(n)

----------------------------------------------------------------------------
\* The star, and then A and B call remove_peer for each other (and for ids
\* that are not registered) while the loops of handle_messages do the same.
InitRemove ==
    Star /\ todo = [n \in Node |->
        CASE n = "A" -> [NoCalls EXCEPT !.remove = 1]
          [] n = "B" -> [NoCalls EXCEPT !.remove = 2]
          [] OTHER -> NoCalls]

NextRemove ==
    \/ \E n, m \in {"A", "B"} : UserRemove(n, ConnectionId(m))
    \/ \E n \in Node : UserRmNotify(n)
    \/ \E s \in Sock : LoopExit(s)
    \/ \E s \in Sock : RmPop(s)
    \/ \E s \in Sock : RmNotify(s)
    \/ \E s \in Sock : TaskEnd(s)
    \/ \E s \in Sock : DispatchPeerList(s)
    \/ \E s \in Sock : DispatchText(s)

SpecRemove == InitRemove /\ [][NextRemove]_vars

AtMostOnce(e) ==
    /\ e.close <= 1 /\ e.text <= e.close /\ e.message <= e.text
    /\ e.roster <= e.message /\ e.update <= e.roster
Removing(n) ==
    \/ user[n].pc \in {"rm_notify", "deadlock"}
    \/ \E s \in Streams(n) : pc[s] \in {"rm_pop", "rm_notify", "deadlock"}
Once == [close |-> 1, text |-> 1, message |-> 1, roster |-> 1, update |-> 1]

\* C4: the cleanup of a registered entry (close, TEXT notice, 'message' event,
\* roster, 'update_peers' event) happens at most once however often remove_peer
\* is invoked for its id, exactly once when the invocations have returned, and
\* an invocation for an id that is not registered does none of it.
C4_RemoveOnce ==
    /\ rm_effects[NoSock] = NoEffect
    /\ \A s \in Sock : AtMostOnce(rm_effects[s])
    /\ \A s \in Sock : (rm_effects[s].close = 1 /\ ~Removing(NodeOf(s))) => rm_effects[s] = Once

\* C4 witness: remove_peer was invoked twice for one id, both invocations have
\* returned, and the entry was cleaned up.
C4_Witness ==
    \E s \in Sock :
        /\ pc[s] # "unused"
        /\ rm_calls[NodeOf(s)][ConnectionId(NodeOf(Other(s)))] >= 2
        /\ ~Removing(NodeOf(s))
        /\ rm_effects[s] = Once

----------------------------------------------------------------------------
\* A linked to B, and then B offers files that are answered and streamed.
InitFile ==
    Pair /\ todo = [n \in Node |->
        IF n = "B" THEN [NoCalls EXCEPT !.file = 2] ELSE NoCalls]

NextFile ==
    \/ \E n \in Node : \E f \in File : SendFile(n, f)
    \/ \E s \in Sock : DispatchFileMeta(s)
    \/ \E s \in Sock : FileMetaOpen(s)
    \/ \E s \in Sock : \E accept \in BOOLEAN : RespondFile(s, accept)
    \/ \E s \in Sock : DispatchFileAccept(s)
    \/ \E s \in Sock : DispatchFileDecline(s)
    \/ \E n \in Node : \E i \in 1..MaxQueue : FileStart(n, i)
    \/ \E n \in Node : \E i \in 1..MaxQueue : FileChunk(n, i)
    \/ \E s \in Sock : DispatchFileData(s)
    \/ \E s \in Sock : DispatchText(s)

SpecFile == InitFile /\ [][NextFile]_vars

\* The file a FILE_DATA payload was read from.
FileOf(data) == data[1] \div 10
FromPeer(s) == tpeer[s].id
Saved(n, f, bytes) ==
    \E path \in DOMAIN downloads[n] :
        path[1] = f /\ downloads[n][path].data = bytes /\ ~downloads[n][path].open

\* C6: once respond_file(peer, False) has answered an offer, current_files holds
\* no entry for that peer and offer, and no byte is written to its file.
C6_DeclineLeavesNothing ==
    \A n \in Node : \A a \in answered[n] :
        a[3] = "decline" =>
            \/ a[1] \notin DOMAIN current_files[n]
            \/ current_files[n][a[1]].path[1] # a[2]

\* Everything sent has been read and every thread is back in its loop.
FileQuiet ==
    /\ \A s \in Sock : chan[s] = <<>> /\ pc[s] \in {"loop", "unused"} /\ ~closed[s]
    /\ \A n \in Node : ftasks[n] = <<>> /\ user[n].pc \in {"idle", "none"}

\* C8: when an offer of file f was accepted, the accept has reached the sender,
\* its data thread has run and everything sent has been read over the open
\* link, the receiver has saved a file of exactly the bytes of f and holds no
\* in-flight entry for the sender.
C8_AcceptedFileArrives ==
    \A n \in Node : \A a \in answered[n] :
        (a[3] = "accept" /\ FileQuiet /\ ConnectionId(n) \in facc_from[a[1]])
            => /\ Saved(n, a[2], FileBytes(a[2]))
               /\ a[1] \notin DOMAIN current_files[n]

\* C9: a FILE_DATA frame is written only to the stream of a peer whose
\* FILE_ACCEPT was read, and what it carries belongs to an offer the receiver
\* has accepted: a peer that declined an offer or has not answered it gets no
\* FILE_DATA frame of that file.
C9_DataOnlyAfterAccept ==
    /\ \A n \in Node : \A s \in fdat_sent[n] : ConnectionId(NodeOf(Other(s))) \in facc_from[n]
    /\ \A s \in Sock : \A i \in 1..Len(chan[s]) :
        chan[s][i].type = "FDAT" =>
            <<FromPeer(s), FileOf(chan[s][i].data), "accept">> \in answered[NodeOf(s)]

----------------------------------------------------------------------------
\* One node whose handle_file_meta and handle_file_data are called directly, as
\* the unit test does, with names, sizes and chunks of every kind.
Chunk == {SubSeq(FileBytes(MaxFileSize), 1, k) : k \in 1..ChunkSize}
Meta == [name : {0, 1}, size : File]

InitRecv == Fresh({"A"}, Calls({"A"}, [NoCalls EXCEPT !.meta = 2, !.data = MaxFileSize]))

NextRecv ==
    \/ \E id \in {"B", "C"} : \E meta \in Meta : HandleFileMetaCall("A", id, meta)
    \/ \E id \in {"B", "C"} : \E data \in Chunk : HandleFileData("A", id, data)

SpecRecv == InitRecv /\ [][NextRecv]_vars

\* C7: an entry made by handle_file_meta stays in current_files while fewer
\* bytes than its size have been handled; once the bytes handled reach the size
\* the file is closed, the completion event is emitted and the entry is gone.
C7_EntryUntilComplete ==
    \A n \in Node : \A id \in DOMAIN current_files[n] :
        LET info == current_files[n][id] IN
        /\ downloads[n][info.path].open
        /\ info.received > 0 => info.received < info.size

----------------------------------------------------------------------------
\* A linked to B, and a client at C that is no NetworkManager: it dials B with a
\* first frame of any kind and, once B has taken it for a peer, writes frames
\* of any kind.
Hello(id) == [conn_id |-> id, nickname |-> DefaultNick("C"), listen_port |-> Port("C")]
FirstFrame ==
    {Frame("CONN", Hello(id)) : id \in Node}
        \cup {Frame("CONN", [junk |-> 0]), Frame("CONN", <<>>), Frame("XXXX", <<>>), Frame("TEXT", <<>>)}
WrittenFrame ==
    {Frame(t, <<>>) : t \in MessageType \cup {"XXXX"}} \cup {Frame("TEXT", <<"says", DefaultNick("C")>>)}

InitForeign ==
    Pair /\ todo = [n \in Node |->
        IF n = "C" THEN [NoCalls EXCEPT !.dial = 1, !.write = 2] ELSE NoCalls]

NextForeign ==
    \/ \E f \in FirstFrame : ForeignDial("C", "B", f)
    \/ \E w \in Sock : \E f \in WrittenFrame : PeerWrites(w, f)
    \/ \E w \in Sock : PeerReads(w)
    \/ \E s \in Sock : HandshakeRecv(s)
    \/ \E s \in Sock : HandshakeRegister(s)
    \/ \E s \in Sock : HandshakeReplay(s)
    \/ \E s \in Sock : DispatchBeat(s)
    \/ \E s \in Sock : DispatchPeerList(s)
    \/ \E s \in Sock : DispatchText(s)
    \/ \E s \in Sock : DispatchElse(s)
    \/ \E s \in Sock : DispatchNick(s)
    \/ \E s \in Sock : DispatchClear(s)
    \/ \E s \in Sock : ClearNote(s)
    \/ \E s \in Sock : DispatchFileMeta(s)
    \/ \E s \in Sock : DispatchFileData(s)
    \/ \E s \in Sock : DispatchFileAccept(s)
    \/ \E s \in Sock : DispatchFileDecline(s)
    \/ \E n \in Node : \E i \in 1..MaxQueue : FileStart(n, i)
    \/ \E s \in Sock : LoopExit(s)
    \/ \E s \in Sock : RmPop(s)
    \/ \E s \in Sock : RmNotify(s)
    \/ \E s \in Sock : TaskEnd(s)

SpecForeign == InitForeign /\ [][NextForeign]_vars

\* The first frame of an inbound stream asks for a link the handshake has to
\* refuse: its payload does not parse, or the id it carries is the node's own
\* or is registered.
Refusable(n, f) ==
    /\ f.type = "CONN"
    /\ \/ f.data = <<>>
       \/ "conn_id" \notin DOMAIN f.data
       \/ f.data.conn_id = ConnectionId(n)
       \/ HasPeer(n, f.data.conn_id)
Refused(s) ==
    /\ pc'[s] = "done" /\ closed'[s]
    /\ RegistryOf(NodeOf(s))' = RegistryOf(NodeOf(s))

\* C11: a handshake whose CONN payload does not parse, or carries the node's own
\* id or an id that has a registry entry (when the frame is read, or by the time
\* the entry would be written), ends with the new stream closed and the three
\* registry maps as they were, so that an entry of that id keeps its stream.
C11_HandshakeRejected ==
    [][\A s \in Sock :
        /\ (pc[s] = "h_recv" /\ pc'[s] # "h_recv" /\ chan[s] # <<>>
                /\ Refusable(NodeOf(s), Head(chan[s]))) => Refused(s)
        /\ (pc[s] = "h_reg" /\ pc'[s] # "h_reg"
                /\ HasPeer(NodeOf(s), tpeer[s].id)) => Refused(s)]_vars

----------------------------------------------------------------------------
\* The star, and then A and B change their nicknames.
NickValue == {<<"Nick", 1>>, <<"Nick", 2>>}

InitNick ==
    Star /\ todo = [n \in Node |->
        CASE n = "A" -> [NoCalls EXCEPT !.nick = 2]
          [] n = "B" -> [NoCalls EXCEPT !.nick = 1]
          [] OTHER -> NoCalls]

NextNick ==
    \/ \E n \in Node : \E v \in NickValue : ChangeNickname(n, v)
    \/ \E s \in Sock : DispatchNick(s)
    \/ \E s \in Sock : DispatchPeerList(s)

FairNick == \A s \in Sock : WF_vars(DispatchNick(s)) /\ WF_vars(DispatchPeerList(s))

SpecNick == InitNick /\ [][NextNick]_vars /\ FairNick

\* Node m holds the nickname v for its peer n and shows it in its roster.
Shows(m, n, v) ==
    /\ ConnectionId(n) \in DOMAIN peer_nicks[m]
    /\ peer_nicks[m][ConnectionId(n)] = v
    /\ \E i \in 1..Len(GetPeerList(m)) :
          GetPeerList(m)[i] = [address |-> <<ServerIp(n), Port(n)>>, nick |-> v]

\* C12: once change_nickname(v) has returned on a node, every node that is
\* linked to it eventually holds v in peer_nicks for its id and shows v in the
\* roster entry of its address, with no further call on the node.
C12_NicknameSpreads ==
    \A n, m \in Node : \A v \in NickValue :
        (Connected(n, m) /\ nickname[n] = v /\ user[n].pc = "idle") ~> Shows(m, n, v)

\* C12 witness: A has changed its nickname and B shows the new one.
C12_Witness ==
    /\ todo["A"].nick < 2
    /\ nickname["A"] \in NickValue
    /\ Shows("B", "A", nickname["A"])

\* The thread of stream end s takes the frame at the head of its stream.
Takes(s) == pc[s] = "loop" /\ chan[s] # <<>> /\ chan'[s] = Tail(chan[s])
\* After the step the thread is still in its loop, on an open stream whose
\* peer is registered as before.
StaysIn(s) ==
    /\ pc'[s] = "loop" /\ ~closed'[s]
    /\ peers'[NodeOf(s)] = peers[NodeOf(s)]
    /\ connection_map'[NodeOf(s)] = connection_map[NodeOf(s)]

\* C15: when the dispatcher reads a frame whose type tag is none of the known
\* message types, it skips the frame: the thread stays in its loop, the stream
\* stays open and the peer stays registered.
C15_UnknownTypeIgnored ==
    [][\A s \in Sock : (Takes(s) /\ Head(chan[s]).type \notin MessageType) => StaysIn(s)]_vars

\* A frame of declared length 0 and a known type is next on stream end s.
ZeroNext(s) ==
    /\ pc[s] = "loop" /\ running[NodeOf(s)] /\ ~closed[s]
    /\ chan[s] # <<>>
    /\ Head(chan[s]).data = <<>> /\ Head(chan[s]).type \in MessageType
\* The handler of the frame raises on an empty payload: json.loads for FMTA and
\* PERS, the write for FDAT when the file of the transfer is closed.
RaisesOnEmpty(s) ==
    \/ Head(chan[s]).type \in {"FMTA", "PERS"}
    \/ /\ Head(chan[s]).type = "FDAT"
       /\ tpeer[s].id \in DOMAIN current_files[NodeOf(s)]
       /\ ~downloads[NodeOf(s)][current_files[NodeOf(s)][tpeer[s].id].path].open
Moves(s) == pc'[s] # pc[s] \/ Takes(s)

----------------------------------------------------------------------------
\* save_file of src/chat/utils.py.  A file name is the stem and the extension
\* os.path.splitext cuts it into; "_<counter>" is one more part of the stem, so
\* that f.txt numbered 1 and a file sent as f_1.txt are the same path.
FileName == {[stem |-> <<"f">>, ext |-> ".txt"], [stem |-> <<"f", 1>>, ext |-> ".txt"],
             [stem |-> <<"g">>, ext |-> ""]}
Content == {<<1>>, <<2>>}

\* f"{name}_{counter}{ext}" (line 74).
Numbered(file_name, counter) == [stem |-> file_name.stem \o <<counter>>, ext |-> file_name.ext]

\* save_file that takes no path for existing.
ExistsNever(dir, path) == FALSE

\* os.path.exists(path) (line 73).
Exists(dir, path) == path \in DOMAIN dir

\* The loop of lines 71-75.
RECURSIVE SavePath(_, _, _, _)
SavePath(dir, file_name, path, counter) ==
    IF Exists(dir, path)
    THEN SavePath(dir, file_name, Numbered(file_name, counter), counter + 1)
    ELSE path

\* save_file(file_name, data) (lines 60-79) in the downloads directory of n.
SaveFile(n, file_name, data) ==
    LET path == SavePath(downloads[n], file_name, file_name, 1) IN
    /\ user[n].pc = "idle"
    /\ todo[n].save > 0
    /\ todo' = [todo EXCEPT ![n].save = @ - 1]
    /\ downloads' = [downloads EXCEPT ![n] = MapPut(@, path, [data |-> data, open |-> FALSE])]
    /\ saved' = Append(saved, [name |-> file_name, data |-> data, path |-> path])
    /\ UNCHANGED <<registry, nodeVars, netVars, connect_ret, user, beat,
                   pending_file, current_files, ftasks, obsVars, wire, rx, gui, tx>>

InitSave == Fresh({"A"}, Calls({"A"}, [NoCalls EXCEPT !.save = 3]))

NextSave == \E file_name \in FileName : \E data \in Content : SaveFile("A", file_name, data)

SpecSave == InitSave /\ [][NextSave]_vars

\* base.ext, base_1.ext, base_2.ext, ...
Candidate(file_name, k) ==
    IF k = 0 THEN file_name ELSE [stem |-> file_name.stem \o <<k>>, ext |-> file_name.ext]
FirstFree(dir, file_name) ==
    Candidate(file_name,
        CHOOSE k \in 0..Cardinality(DOMAIN dir) :
            /\ Candidate(file_name, k) \notin DOMAIN dir
            /\ \A j \in 0..(k - 1) : Candidate(file_name, j) \in DOMAIN dir)
Kept(dir, r) == r.path \in DOMAIN dir /\ dir[r.path].data = r.data

\* C14: save_file writes to the first of base.ext, base_1.ext, base_2.ext, ...
\* that does not exist when it is called and leaves every existing file as it
\* was; every file saved keeps its own content, and saving one name twice into
\* the empty directory yields base.ext and then base_1.ext.
C14_SaveNeverOverwrites ==
    /\ [](/\ \A i \in 1..Len(saved) : Kept(downloads["A"], saved[i])
          /\ (Len(saved) >= 2 /\ saved[1].name = saved[2].name)
                => /\ saved[1].path = Candidate(saved[1].name, 0)
                   /\ saved[2].path = Candidate(saved[1].name, 1))
    /\ [][saved' # saved =>
            LET r == saved'[Len(saved')] IN
            /\ r.path = FirstFree(downloads["A"], r.name)
            /\ \A q \in DOMAIN downloads["A"] :
                  q \in DOMAIN downloads'["A"] /\ downloads'["A"][q] = downloads["A"][q]
            /\ Kept(downloads'["A"], r)]_vars

\* C14 witness: one name was saved twice with two contents.
C14_Witness ==
    /\ Len(saved) >= 2
    /\ saved[1].name = saved[2].name /\ saved[1].data # saved[2].data
    /\ saved[1].path # saved[2].path

----
\* Framing on the wire, byte by byte: send_message's packet (line 436) read
\* back by handle_messages (lines 204-218) through receive_all
\* (src/chat/utils.py, lines 11-40).

RecvMax == 4096

\* MessageType's values (lines 13-23), as the bytes str.encode() gives.
Value(t) ==
    CASE t = "TEXT" -> <<84, 69, 88, 84>>
      [] t = "FMTA" -> <<70, 77, 84, 65>>
      [] t = "FDAT" -> <<70, 68, 65, 84>>
      [] t = "FACC" -> <<70, 65, 67, 67>>
      [] t = "FDEC" -> <<70, 68, 69, 67>>
      [] t = "NICK" -> <<78, 73, 67, 75>>
      [] t = "PERS" -> <<80, 69, 82, 83>>
      [] t = "BEAT" -> <<66, 69, 65, 84>>
      [] t = "CONN" -> <<67, 79, 78, 78>>
      [] t = "CLRH" -> <<67, 76, 82, 72>>
      [] OTHER -> <<88, 88, 88, 88>>

\* len(data).to_bytes(4, 'big')
ToBytes(n) == [i \in 1..4 |-> (n \div (256 ^ (4 - i))) % 256]

RECURSIVE FromBytesLittle(_)
FromBytesLittle(b) ==
    IF b = <<>> THEN 0 ELSE Head(b) + 256 * FromBytesLittle(Tail(b))

\* int.from_bytes(header[4:8], 'big')
RECURSIVE FromBytes(_)
FromBytes(b) ==
    IF b = <<>> THEN 0 ELSE FromBytes(SubSeq(b, 1, Len(b) - 1)) * 256 + b[Len(b)]

\* packet = msg_type.value.encode() + len(data).to_bytes(4, 'big') + data
Packet(t, data) == Value(t) \o ToBytes(Len(data)) \o data

\* MessageType(header[:4].decode()): the member with that value, or ValueError.
TypeOf(tag) ==
    IF \E t \in MessageType : Value(t) = tag
    THEN CHOOSE t \in MessageType : Value(t) = tag
    ELSE "ValueError"

Min(a, b) == IF a < b THEN a ELSE b

\* What receive_all returns when it gives up (lines 23, 33, 38).
FailureShort(data) == data
Failure(data) == None

\* select.select([conn], [], [], t): readable when bytes wait, or at end of
\* stream, or when the connection was reset.
Readable == wire.bytes # <<>> \/ wire.end \in {"eof", "reset"}

\* Line 204-208: the dispatcher waits for the socket, then asks for a header.
Select ==
    /\ rx.pc = "select"
    /\ Readable
    /\ rx' = [rx EXCEPT !.pc = "header", !.want = 8, !.had = Len(wire.bytes),
                        !.data = <<>>, !.waited = 0]
    /\ UNCHANGED <<registry, nodeVars, netVars, taskVars, fileVars, obsVars, wire, saved, gui, tx>>

Returns(v) ==
    rx' = [rx EXCEPT !.pc = IF rx.pc = "header" THEN "got_header" ELSE "got_payload",
                     !.ret = v]

\* One turn of receive_all's loop (src/chat/utils.py, lines 21-40).
ReceiveAll ==
    /\ rx.pc \in {"header", "payload"}
    /\ IF Len(rx.data) >= rx.want
       THEN Returns(rx.data) /\ UNCHANGED wire
       ELSE IF rx.waited > MaxWait
       THEN Returns(Failure(rx.data)) /\ UNCHANGED wire
       ELSE \/ /\ ~Readable
               /\ rx' = [rx EXCEPT !.waited = rx.waited + 1]
               /\ UNCHANGED wire
            \/ /\ wire.bytes # <<>>
               /\ \E k \in 1..Min(Min(RecvMax, rx.want - Len(rx.data)), Len(wire.bytes)) :
                    /\ rx' = [rx EXCEPT !.data = rx.data \o SubSeq(wire.bytes, 1, k)]
                    /\ wire' = [wire EXCEPT
                            !.bytes = SubSeq(wire.bytes, k + 1, Len(wire.bytes))]
            \/ /\ wire.bytes = <<>> /\ wire.end = "eof"
               /\ Returns(Failure(rx.data)) /\ UNCHANGED wire
            \/ /\ wire.end = "reset"
               /\ Returns(Failure(rx.data)) /\ UNCHANGED wire
    /\ UNCHANGED <<registry, nodeVars, netVars, taskVars, fileVars, obsVars, saved, gui, tx>>

\* Lines 209-218 after the header came back: break on a falsy header, parse
\* the tag and the length, take the empty payload when the length is 0.
ReadHeader ==
    /\ rx.pc = "got_header"
    /\ IF rx.ret = None \/ rx.ret = <<>>
       THEN rx' = [rx EXCEPT !.pc = "exit"]
       ELSE LET tag == TypeOf(SubSeq(rx.ret, 1, Min(4, Len(rx.ret))))
                length == FromBytes(SubSeq(rx.ret, 5, Len(rx.ret)))
            IN  IF tag = "ValueError"
                THEN rx' = [rx EXCEPT !.pc = "raise"]
                ELSE IF length > 0
                THEN rx' = [rx EXCEPT !.pc = "payload", !.header = rx.ret,
                                      !.want = length, !.had = Len(wire.bytes),
                                      !.data = <<>>, !.waited = 0]
                ELSE rx' = [rx EXCEPT !.pc = "select", !.header = rx.ret,
                                      !.frames = Append(rx.frames,
                                            [type |-> tag, data |-> <<>>])]
    /\ UNCHANGED <<registry, nodeVars, netVars, taskVars, fileVars, obsVars, wire, saved, gui, tx>>

\* Lines 216-218 after the payload came back: break on None, else dispatch.
ReadPayload ==
    /\ rx.pc = "got_payload"
    /\ IF rx.ret = None
       THEN rx' = [rx EXCEPT !.pc = "exit"]
       ELSE rx' = [rx EXCEPT !.pc = "select",
                             !.frames = Append(rx.frames,
                                   [type |-> TypeOf(SubSeq(rx.header, 1, 4)),
                                    data |-> rx.ret])]
    /\ UNCHANGED <<registry, nodeVars, netVars, taskVars, fileVars, obsVars, wire, saved, gui, tx>>

\* Payloads of every length up to the bound.
Payload == {[i \in 1..k |-> 6 + i] : k \in 0..MaxPayload}
WireFrame == [type : MessageType \cup {"XXXX"}, data : Payload]
SecondFrame == {[type |-> "BEAT", data |-> <<>>], [type |-> "TEXT", data |-> <<7>>]}

RECURSIVE Stream(_)
Stream(fs) ==
    IF fs = <<>> THEN <<>> ELSE Packet(Head(fs).type, Head(fs).data) \o Stream(Tail(fs))

\* One or two frames written by send_message; the stream carries all of them
\* or is cut short, and then stays open and silent, ends, or is reset.
InitWire ==
    /\ FreshNodes({}, [n \in Node |-> NoCalls])
    /\ \E sent \in {<<f>> : f \in WireFrame}
                   \cup {<<f, g>> : f \in WireFrame, g \in SecondFrame} :
       \E cut \in 0..Len(Stream(sent)) :
       \E end \in {"open", "eof", "reset"} :
            wire = [bytes |-> SubSeq(Stream(sent), 1, cut), end |-> end,
                    sent |-> sent, all |-> SubSeq(Stream(sent), 1, cut)]
    /\ rx = [NoReader EXCEPT !.pc = "select"]
    /\ tx = NoTx

NextWire == Select \/ ReceiveAll \/ ReadHeader \/ ReadPayload

SpecWire == InitWire /\ [][NextWire]_vars

Whole == wire.all = Stream(wire.sent)
KnownOnly == \A i \in 1..Len(wire.sent) : wire.sent[i].type \in MessageType

\* C17: whenever the reader is back at the top of its loop, the frames it
\* parsed are exactly the frames send_message wrote, type and payload, in
\* order, and encoding them again gives back the bytes it consumed; when the
\* whole stream of well-formed frames was written and the stream then ends,
\* the reader has parsed every frame by the time it leaves the loop.
C17_FramingRoundTrip ==
    /\ rx.pc = "select" =>
        /\ Len(rx.frames) <= Len(wire.sent)
        /\ rx.frames = SubSeq(wire.sent, 1, Len(rx.frames))
        /\ Stream(rx.frames) \o wire.bytes = wire.all
    /\ (rx.pc \in {"exit", "raise"} /\ Whole /\ KnownOnly /\ wire.end # "reset") =>
        rx.frames = wire.sent

C17_Witness ==
    /\ rx.pc = "select" /\ wire.bytes = <<>>
    /\ Len(rx.frames) = 2
    /\ rx.frames[1].type = "FDAT" /\ Len(rx.frames[1].data) = MaxPayload
    /\ Stream(rx.frames) = wire.all

\* C18: receive_all hands back None or exactly the number of bytes asked for;
\* when fewer bytes than asked for were ever to come it hands back None; after
\* a None the reader only leaves the loop, and every frame it dispatched lies
\* whole on the wire.
C18_ExactOrFailure ==
    /\ rx.pc \in {"got_header", "got_payload"} =>
        /\ rx.ret = None \/ Len(rx.ret) = rx.want
        /\ rx.had < rx.want => rx.ret = None
    /\ rx.ret = None => rx.pc \in {"got_header", "got_payload", "exit"}
    /\ Len(Stream(rx.frames)) <= Len(wire.all)
    /\ Stream(rx.frames) = SubSeq(wire.all, 1, Len(Stream(rx.frames)))

C18_Witness ==
    /\ rx.pc = "exit" /\ rx.ret = None
    /\ rx.data # <<>> /\ Len(rx.data) < rx.want
    /\ Len(rx.frames) = 1

----
\* C19: when the other end of a registered peer's stream is closed or reset,
\* the dispatcher of that stream eventually leaves its loop and ends, and the
\* peer is eventually gone from the registry.
PeerLost(s) ==
    /\ pc[s] = "loop"
    /\ s \in Registered(NodeOf(s))
    /\ closed[Other(s)]

PeerGone(s) ==
    /\ pc[s] \in {"end", "done"}
    /\ ~HasPeer(NodeOf(s), tpeer[s].id)

C19_LostPeerRemoved == \A s \in Sock : PeerLost(s) ~> PeerGone(s)

----
\* C20: the thread of an inbound connection at a host starts dispatching only
\* from the replay, and in the step in which it does it has written one TEXT
\* frame for every line of chat_history, in the order of the history, to the
\* peer; before that step the only frame taken from the peer's stream is the
\* one the handshake reads.
Inbound(s) == s[2] = "a" /\ pc[s] # "unused"
Replayed(s) ==
    LET h == chat_history[NodeOf(s)] IN
    \/ closed[Other(s)]
    \/ chan'[Other(s)] = chan[Other(s)] \o [i \in 1..Len(h) |-> [type |-> "TEXT", data |-> h[i]]]

C20_HostReplaysHistory ==
    [][\A s \in Sock : (Inbound(s) /\ is_host[NodeOf(s)]) =>
            /\ (pc[s] # "loop" /\ pc'[s] = "loop") => (pc[s] = "h_replay" /\ Replayed(s))
            /\ Len(chan'[s]) < Len(chan[s]) => pc[s] \in {"h_recv", "loop"}]_vars

C20_Witness ==
    \E s \in Sock :
        LET h == chat_history[NodeOf(s)]
            out == chan[Other(s)]
        IN  /\ Inbound(s) /\ is_host[NodeOf(s)]
            /\ pc[s] = "loop"
            /\ Len(h) = 2 /\ Len(out) >= 2
            /\ SubSeq(out, Len(out) - 1, Len(out)) =
                    <<[type |-> "TEXT", data |-> h[1]], [type |-> "TEXT", data |-> h[2]]>>

----
\* A and B are connected; each calls clear_history and says something.
InitClear ==
    Pair /\ todo = [n \in Node |->
        IF n \in {"A", "B"} THEN [NoCalls EXCEPT !.clear = 1, !.text = 1] ELSE NoCalls]

NextClear ==
    \/ \E n \in Node : ClearHistory(n)
    \/ \E n \in Node : ClearSend(n)
    \/ \E n \in Node : ClearDone(n)
    \/ \E n \in Node : SendText(n)
    \/ \E s \in Sock : DispatchClear(s)
    \/ \E s \in Sock : ClearNote(s)
    \/ \E s \in Sock : DispatchText(s)

SpecClear == InitClear /\ [][NextClear]_vars

OnlyNotice(n) == chat_history'[n] = <<<<"cleared">>>> /\ gui'[n].clear_history > 0
Open(s) == ~closed[s] /\ ~closed[Other(s)]

\* C21: when the handler of a CLEAR_HISTORY frame is through, and when a call
\* of clear_history returns, the history of the node is the 'history cleared'
\* line and nothing else, and the clear_history event has gone to the callback;
\* the call has written a CLRH frame to every registered peer.
C21_ClearLeavesNotice ==
    [][/\ \A s \in Sock : (pc[s] = "clr_note" /\ pc'[s] = "loop") => OnlyNotice(NodeOf(s))
       /\ \A n \in Node : (user[n].pc = "clear_note" /\ user'[n].pc = "idle") => OnlyNotice(n)
       /\ \A n \in Node : (user[n].pc = "clear_send" /\ user'[n].pc = "clear_note") =>
            \A i \in 1..Len(peers[n]) :
                LET s == peers[n][i].sock IN
                Open(s) => chan'[Other(s)] = Append(chan[Other(s)], [type |-> "CLRH", data |-> <<>>])
      ]_vars

----
IsPrefix(a, b) == Len(a) <= Len(b) /\ SubSeq(b, 1, Len(a)) = a

\* C22: the frames of a stream are handled in the order they were written: a
\* write puts its frames behind those in flight, and the thread of the stream
\* end takes the frame at the head, and only when it is waiting for a frame,
\* that is when the handler of the frame before has run to its end.
C22_FramesInOrder ==
    [][\A s \in Sock : chan'[s] # chan[s] =>
            \/ IsPrefix(chan[s], chan'[s])
            \/ /\ chan[s] # <<>> /\ chan'[s] = Tail(chan[s])
               /\ pc[s] \in {"loop", "h_recv", "c_wait", "peer"}]_vars

\* C22 witness: A cleared the history and then said something; B has handled
\* both frames, the CLRH first.
C22_Witness ==
    /\ chan[<<1, "a">>] = <<>> /\ pc[<<1, "a">>] = "loop"
    /\ todo["A"] = NoCalls /\ user["A"].pc = "idle"
    /\ todo["B"] = [NoCalls EXCEPT !.clear = 1, !.text = 1]
    /\ chat_history["B"] = <<<<"cleared">>, <<"says", DefaultNick("A")>>>>

----
\* The dispatcher of stream end s takes a peer list.
TakesList(s) ==
    /\ pc[s] = "loop" /\ chan[s] # <<>>
    /\ Head(chan[s]).type = "PERS" /\ Head(chan[s]).data # <<>>
    /\ chan'[s] = Tail(chan[s])
\* The entries of the list that are not the node itself and not in its registry.
Unknown(n, list) ==
    {i \in 1..Len(list) :
        /\ <<list[i].host, list[i].port>> # <<ServerIp(n), Port(n)>>
        /\ <<list[i].host, list[i].port>> \notin DOMAIN connection_map[n]}
Dials(n) == {c \in 1..MaxConn : conn[c] = NoConn /\ conn'[c] # NoConn /\ conn'[c].dialer = n}

\* C23: when the dispatcher takes a peer list, a dial is under way for each of
\* its entries that is neither the node itself nor in the registry, one per
\* entry and none for the others, and the roster has gone to the update_peers
\* callback.
C23_PeerListDials ==
    [][\A s \in Sock : TakesList(s) =>
            LET n == NodeOf(s)
                list == Head(chan[s]).data
            IN  /\ gui'[n].update_peers =
                        [i \in 1..Len(list) |->
                            [address |-> <<list[i].host, list[i].port>>, nick |-> list[i].nick]]
                /\ Cardinality(Dials(n)) = Cardinality(Unknown(n, list))
                /\ \A i \in Unknown(n, list) :
                        \E c \in Dials(n) : <<conn'[c].host, conn'[c].port>> = <<list[i].host, list[i].port>>
      ]_vars

----
\* D, started with port 0, and A dial each other: D the port of A, A the port
\* the listening socket of D is bound to.
InitPort == Fresh({"A", "D"}, Calls({"A", "D"}, [NoCalls EXCEPT !.dial = 1]))

NextPort ==
    \/ ConnectToPeer("D", ServerIp("A"), BoundPort("A"))
    \/ ConnectToPeer("A", ServerIp("D"), BoundPort("D"))
    \/ \E s \in Sock : HandshakeRecv(s)
    \/ \E s \in Sock : HandshakeRegister(s)
    \/ \E s \in Sock : HandshakeReplay(s)
    \/ \E s \in Sock : ConnectFinish(s)
    \/ \E s \in Sock : DispatchPeerList(s)
    \/ \E s \in Sock : DispatchText(s)
    \/ \E s \in Sock : LoopExit(s)
    \/ \E s \in Sock : RmPop(s)
    \/ \E s \in Sock : RmNotify(s)
    \/ \E s \in Sock : TaskEnd(s)

SpecPort == InitPort /\ [][NextPort]_vars

\* The node that wrote the frames in flight towards stream end s.
Writer(s) == NodeOf(Other(s))
SelfEntry(list) == list[Len(list)]

\* C25: the listen_port of every handshake record and the port of the
\* self-entry of every roster a node writes is the port its listening socket is
\* bound to, and not 0, also when the node was started with port 0.
C25_AdvertisesBoundPort ==
    \A s \in Sock : \A i \in 1..Len(chan[s]) :
        LET f == chan[s][i] IN
        /\ f.type = "CONN" =>
                f.data.listen_port = BoundPort(Writer(s)) /\ f.data.listen_port # 0
        /\ f.type = "PERS" =>
                SelfEntry(f.data).port = BoundPort(Writer(s)) /\ SelfEntry(f.data).port # 0

----
\* The roster a node owes its peers: one entry per registered peer, with the
\* address and the nickname the registry holds for it, and then the node itself.
PeerPart(n) ==
    [i \in 1..Len(peers'[n]) |->
        [host |-> peers'[n][i].addr[1], port |-> peers'[n][i].addr[2],
         nick |-> peer_nicks'[n][peers'[n][i].id]]]
SelfPart(n) == [host |-> ServerIp(n), port |-> BoundPort(n), nick |-> nickname'[n]]
\* Stream end s gets a roster from its peer in this step.
GetsRoster(s) ==
    /\ Len(chan'[s]) > Len(chan[s])
    /\ chan'[s][Len(chan'[s])].type = "PERS"

\* C24: get_peer_list returns, and every roster a node writes holds, one entry
\* per registered peer with its address and nickname, and after them exactly
\* one entry for the node itself with the address its listening socket is bound
\* to and its nickname.
C24_RosterIsRegistryPlusSelf ==
    /\ [](\A n \in Node : (running[n] /\ lock[n] = Free) =>
            LET lst == GetPeerList(n) IN
            /\ Len(lst) = Len(peers[n]) + 1
            /\ \A i \in 1..Len(peers[n]) :
                    lst[i] = [address |-> peers[n][i].addr, nick |-> peer_nicks[n][peers[n][i].id]]
            /\ lst[Len(lst)] = [address |-> <<ServerIp(n), BoundPort(n)>>, nick |-> nickname[n]])
    /\ [][\A s \in Sock : GetsRoster(s) =>
            chan'[s][Len(chan'[s])].data = PeerPart(Writer(s)) \o <<SelfPart(Writer(s))>>]_vars

----
\* C26: once remove_peer has taken a registered entry out of the registry, the
\* disconnect notice and the new roster are eventually written to the peers
\* that are left, and the 'message' and 'update_peers' events are emitted.
Announced(e) == e.text >= 1 /\ e.message >= 1 /\ e.roster >= 1 /\ e.update >= 1

C26_RemovalAnnounced == \A s \in Sock : (rm_effects[s].close >= 1) ~> Announced(rm_effects[s])

----
\* Node n makes a broadcast in this step: a round of heartbeat or send_text.
Broadcasts(n) == todo'[n].beat < todo[n].beat \/ todo'[n].text < todo[n].text

\* C27: a broadcast returns whether or not a write fails; it leaves the lock
\* free and its task running, every registered peer whose stream is open has
\* got the frame, and no peer whose stream is open has left the registry.
C27_FailedWriteRemovesOnlyThatPeer ==
    [][\A n \in Node : Broadcasts(n) =>
            /\ lock'[n] = Free
            /\ beat'[n] # "deadlock" /\ user'[n].pc # "deadlock"
            /\ \A i \in 1..Len(peers[n]) :
                    LET s == peers[n][i].sock IN
                    Open(s) => /\ Len(chan'[Other(s)]) = Len(chan[Other(s)]) + 1
                               /\ HasPeer(n, peers[n][i].id)'
      ]_vars

----
\* handle_peer_list of A has started one connect_to_peer thread for the
\* address of B per roster it was given, and the threads run side by side.
InitDial == Fresh({"A", "B"}, Calls({"A"}, [NoCalls EXCEPT !.list = 2]))

NextDial ==
    \/ DialThread("A", ServerIp("B"), Port("B"))
    \/ \E s \in Sock : HandshakeRecv(s)
    \/ \E s \in Sock : HandshakeRegister(s)
    \/ \E s \in Sock : HandshakeReplay(s)
    \/ \E s \in Sock : ConnectFinish(s)
    \/ \E s \in Sock : DispatchPeerList(s)
    \/ \E s \in Sock : DispatchText(s)
    \/ \E s \in Sock : LoopExit(s)
    \/ \E s \in Sock : RmPop(s)
    \/ \E s \in Sock : RmNotify(s)
    \/ \E s \in Sock : TaskEnd(s)

SpecDial == InitDial /\ [][NextDial]_vars

\* Nothing is under way: every thread of a stream waits for a frame on a live
\* stream or has ended, and no frame is in flight.
AtRest ==
    \A s \in Sock :
        /\ pc[s] \in {"unused", "loop", "done"}
        /\ chan[s] = <<>>
        /\ pc[s] = "loop" => (~closed[s] /\ ~closed[Other(s)])

\* The streams n holds to m that neither end has closed.
OpenEnds(n, m) ==
    {s \in Sock : /\ pc[s] # "unused" /\ NodeOf(s) = n /\ NodeOf(Other(s)) = m
                  /\ ~closed[s] /\ ~closed[Other(s)]}

\* A dial thread of n takes up the address of B while n holds it as connected.
DialsKnown(n) ==
    /\ todo'[n].list < todo[n].list
    /\ <<ServerIp("B"), Port("B")>> \in DOMAIN connection_map[n]

\* C28: when the dials of one address have run their course, each end holds at
\* most one registry entry and at most one open stream for the other node; and
\* a dial of an address that is in the registry opens no connection and
\* returns False.
C28_DialIdempotent ==
    /\ [](AtRest => \A n, m \in {"A", "B"} :
            /\ Len(SelectSeq(peers[n], LAMBDA e : e.id = ConnectionId(m))) <= 1
            /\ Cardinality(OpenEnds(n, m)) <= 1)
    /\ [][DialsKnown("A") => (conn' = conn /\ connect_ret'["A"].val = "False")]_vars

\* C28 witness: two dials of B ran side by side and opened two connections;
\* one was given up, the other is the open stream both registries hold, and a
\* later dial of the address has returned False.
C28_Witness ==
    /\ AtRest
    /\ conn[1] # NoConn /\ conn[2] # NoConn
    /\ todo["A"].list = 0 /\ connect_ret["A"].val = "False"
    /\ Len(peers["A"]) = 1 /\ Len(peers["B"]) = 1
    /\ peers["B"][1].sock = Other(peers["A"][1].sock)
    /\ Cardinality(OpenEnds("A", "B")) = 1 /\ Cardinality(OpenEnds("B", "A")) = 1

----------------------------------------------------------------------------
\* A task that has asked for the registry lock of its node and does not have
\* it: a dispatcher at the remove_peer of its finally clause, the caller of
\* stop, and any task inside remove_peer called with the lock held.
WaitsForLock(s) == pc[s] \in {"rm_pop", "deadlock"}
UserWaits(n) == user[n].pc \in {"stop", "deadlock"}
BeatWaits(n) == beat[n] = "deadlock"

\* C29: every task that asks for the registry lock gets it in the end: a
\* failed write of a broadcast, stop with registered peers and a failed write
\* of the history replay leave no task waiting for ever.
C29_LockAcquired ==
    /\ \A s \in Sock : WaitsForLock(s) ~> ~WaitsForLock(s)
    /\ \A n \in Node : UserWaits(n) ~> ~UserWaits(n)
    /\ \A n \in Node : BeatWaits(n) ~> ~BeatWaits(n)

----------------------------------------------------------------------------
\* The registry entries of n whose stream neither end has closed.
LiveEntries(n) ==
    {i \in 1..Len(peers[n]) :
        ~closed[peers[n][i].sock] /\ ~closed[Other(peers[n][i].sock)]}

\* The dispatcher of s pops an entry at the end of its loop.
ExitPops(s) == pc[s] = "rm_pop" /\ pc'[s] = "rm_notify"

\* The entry m holds for n is on the far end of the stream of e.
Mirrored(n, m, e) ==
    /\ HasPeer(m, ConnectionId(n))
    /\ EntryOf(peers[m], ConnectionId(n)).sock = Other(e.sock)

\* C30: a dispatcher that leaves its loop removes the entry of its peer only
\* when the entry holds the stream it was reading; no step puts another stream
\* in the entry of a stream that is still open; and once the dials have run
\* their course the open stream A has registered for B is the one B has
\* registered for A.
C30_EntryFollowsItsStream ==
    /\ [][\A s \in Sock :
            ExitPops(s) => EntryOf(peers[NodeOf(s)], tpeer[s].id).sock = s]_vars
    /\ [][\A n \in {"A", "B"} : \A i \in LiveEntries(n) :
            HasPeer(n, peers[n][i].id)' =>
                EntryOf(peers'[n], peers[n][i].id).sock = peers[n][i].sock]_vars
    /\ [](AtRest => \A n, m \in {"A", "B"} : \A i \in LiveEntries(n) :
            peers[n][i].id = ConnectionId(m) => Mirrored(n, m, peers[n][i]))

----------------------------------------------------------------------------
\* The offers of node n that the peer with this id has accepted.
AcceptedBy(id, n) == {a[2] : a \in {b \in answered[id] : b[1] = ConnectionId(n) /\ b[3] = "accept"}}

\* C31: a _send_file_data thread streams to a peer the file of an offer that
\* peer has accepted, also when send_file was called again for another file
\* between the offer and the accept.
C31_StreamsAcceptedFile ==
    \A n \in Node : \A i \in 1..Len(ftasks[n]) :
        ftasks[n][i].pc = "send" => ftasks[n][i].file \in AcceptedBy(ftasks[n][i].peer, n)

----------------------------------------------------------------------------
\* Writing to one socket, byte by byte: send_message (lines 434-445) and
\* send_all (src/chat/utils.py, lines 42-58) run by two tasks of a node.

\* send_message up to its first write: a broadcast takes self.lock (line 439),
\* a write to one given socket (lines 437-438, the chunks of _send_file_data)
\* takes nothing.
SendMessage(t) ==
    /\ tx.w[t].pc = "start"
    /\ IF t = "file"
       THEN tx' = [tx EXCEPT !.w[t].pc = "send"]
       ELSE /\ tx.lock = "-"
            /\ tx' = [tx EXCEPT !.w[t].pc = "send", !.lock = t]
    /\ UNCHANGED <<registry, nodeVars, netVars, taskVars, fileVars, obsVars, wire, rx, saved, gui>>

\* One turn of send_all's loop: sock.send takes some of the bytes left and
\* says how many, or raises on a connection that was reset.  When nothing is
\* left send_all returns and a broadcast leaves its with block; what send_all
\* raises ends a _send_file_data thread and sends a broadcast into remove_peer
\* with the lock held.
SendAll(t) ==
    LET w == tx.w[t]
        left == Len(w.packet) - w.total_sent
    IN
    /\ w.pc = "send"
    /\ IF left = 0
       THEN /\ tx' = [tx EXCEPT !.w[t].pc = "done", !.lock = IF @ = t THEN "-" ELSE @]
            /\ UNCHANGED wire
       ELSE \/ /\ wire.end = "open"
               /\ \E sent \in 1..left :
                    LET part == SubSeq(w.packet, w.total_sent + 1, w.total_sent + sent) IN
                    /\ wire' = [wire EXCEPT !.bytes = @ \o part, !.all = @ \o part]
                    /\ tx' = [tx EXCEPT !.w[t].total_sent = @ + sent]
            \/ /\ wire.end = "reset"
               /\ tx' = [tx EXCEPT !.w[t].pc = "raised"]
               /\ UNCHANGED wire
    /\ UNCHANGED <<registry, nodeVars, netVars, taskVars, fileVars, obsVars, rx, saved, gui>>

\* The peer resets the connection.
PeerResets ==
    /\ wire.end = "open"
    /\ \E t \in WriteTask : tx.w[t].pc \in {"start", "send"}
    /\ wire' = [wire EXCEPT !.end = "reset"]
    /\ UNCHANGED <<registry, nodeVars, netVars, taskVars, fileVars, obsVars, rx, saved, gui, tx>>

\* The packet each task writes: a heartbeat, a line of text, a chunk of a file.
PacketsOf(t) ==
    CASE t = "beat" -> {Packet("BEAT", <<>>)}
      [] t = "user" -> {Packet("TEXT", <<7>>)}
      [] OTHER -> {Packet("FDAT", c) : c \in Chunk}

\* Two tasks are about to write one frame each to the open stream of a peer.
InitSend ==
    /\ FreshNodes({}, [n \in Node |-> NoCalls])
    /\ rx = NoReader
    /\ wire = [NoWire EXCEPT !.end = "open"]
    /\ \E other \in {"user", "file"} :
       \E p \in PacketsOf("beat") : \E q \in PacketsOf(other) :
            tx = [lock |-> "-",
                  w |-> [t \in WriteTask |->
                            IF t = "beat" THEN [pc |-> "start", packet |-> p, total_sent |-> 0]
                            ELSE IF t = other THEN [pc |-> "start", packet |-> q, total_sent |-> 0]
                            ELSE NoWriter]]

NextSend ==
    \/ \E t \in WriteTask : SendMessage(t)
    \/ \E t \in WriteTask : SendAll(t)
    \/ PeerResets

SpecSend == InitSend /\ [][NextSend]_vars

\* The tasks that have written a byte, and the packets of a sequence of tasks.
Began == {t \in WriteTask : tx.w[t].total_sent > 0}
RECURSIVE PacketsIn(_)
PacketsIn(ts) == IF ts = <<>> THEN <<>> ELSE tx.w[Head(ts)].packet \o PacketsIn(Tail(ts))
Orders(S) ==
    {<<>>} \cup {<<a>> : a \in S} \cup {o \in {<<a, b>> : a \in S, b \in S} : o[1] # o[2]}

\* C32: the bytes on a stream are at every moment whole frames one after the
\* other, the last of them possibly still being written: the bytes of frames
\* that two tasks write to one stream are never interleaved.
C32_FramesNotInterleaved ==
    \E ts \in Orders(Began) :
        /\ {ts[i] : i \in 1..Len(ts)} = Began
        /\ IsPrefix(wire.all, PacketsIn(ts))

----------------------------------------------------------------------------
\* The dispatcher of s handles a frame of type t in this step.
Handles(s, t) == Reads(s, t) /\ chan'[s] = Tail(chan[s])

\* The frame written last to the stream of entry e is the notice of a refusal.
RefusalSent(e) ==
    LET q == chan'[Other(e.sock)] IN
    /\ Len(q) > Len(chan[Other(e.sock)])
    /\ q[Len(q)].type = "TEXT" /\ q[Len(q)].data[1] = "refused"

\* C33: the handler of a FILE_DECLINE frame writes the notice of the refusal
\* to the stream of every registered peer, starts no _send_file_data thread and
\* writes no FILE_DATA frame, and leaves the pending outbound slot empty.
C33_DeclineClearsOffer ==
    [][\A s \in Sock : Handles(s, "FDEC") =>
            LET n == NodeOf(s) IN
            /\ \A i \in 1..Len(peers[n]) : RefusalSent(peers[n][i])
            /\ ftasks'[n] = ftasks[n] /\ fdat_sent'[n] = fdat_sent[n]
            /\ pending_file'[n] = NoFile]_vars

----------------------------------------------------------------------------
\* The bytes the files of the downloads directory of n hold.
RECURSIVE Stored(_, _)
Stored(files, paths) ==
    IF paths = {} THEN 0
    ELSE LET p == CHOOSE p \in paths : TRUE IN
         Len(files[p].data) + Stored(files, paths \ {p})

\* C34: a FILE_DATA frame from a peer without a receive-side entry is dropped:
\* no file is written, current_files and the registry stay as they are, and
\* the dispatcher neither raises nor closes the stream but goes on reading.
C34_DataWithoutEntryDropped ==
    [][\A s \in Sock :
        (Handles(s, "FDAT") /\ FromPeer(s) \notin DOMAIN current_files[NodeOf(s)]) =>
            /\ downloads' = downloads /\ current_files' = current_files
            /\ events' = events
            /\ peers' = peers /\ connection_map' = connection_map /\ peer_nicks' = peer_nicks
            /\ pc'[s] = "loop" /\ closed' = closed]_vars

\* C34 witness: B offered its largest file twice and A accepted both offers;
\* all B streamed has been read, the first bytes completed a transfer and the
\* frames behind them, for which A had no entry left, were dropped with every
\* dispatcher still in its loop.
C34_Witness ==
    /\ FileQuiet
    /\ answered["A"] = {<<"B", MaxFileSize, "accept">>}
    /\ DOMAIN downloads["A"] = {<<MaxFileSize, 0>>, <<MaxFileSize, 1>>}
    /\ todo["B"].file = 0 /\ fdat_sent["B"] # {}
    /\ "B" \notin DOMAIN current_files["A"]
    /\ Stored(downloads["A"], DOMAIN downloads["A"]) = MaxFileSize

----------------------------------------------------------------------------
\* The entries a node wrote for peers it accepted.
AcceptedEntries(n) == {i \in 1..Len(peers[n]) : peers[n][i].sock[2] = "a"}

\* C35: the address the registry holds for a peer accepted on an inbound
\* connection is the host the connection came from with the listen port of the
\* peer's handshake record, never the source port of the connection, and it is
\* an address at which that peer listens.
C35_InboundAddressDialable ==
    \A n \in Node : \A i \in AcceptedEntries(n) :
        LET e == peers[n][i]
            m == conn[e.sock[1]].dialer
        IN
        /\ e.addr = <<ServerIp(m), Port(m)>>
        /\ e.addr[2] # SourcePort(e.sock[1])
        /\ m \in Owner(e.addr[1], e.addr[2])

----------------------------------------------------------------------------
\* The star A-B-C in which A and C each offer a file of the same name, file 1.
InitMeta ==
    Star /\ todo = [n \in Node |->
        IF n \in {"A", "C"} THEN [NoCalls EXCEPT !.file = 1] ELSE NoCalls]

NextMeta ==
    \/ \E n \in Node : SendFile(n, 1)
    \/ \E s \in Sock : DispatchFileMeta(s)
    \/ \E s \in Sock : FileMetaOpen(s)
    \/ \E s \in Sock : \E accept \in BOOLEAN : RespondFile(s, accept)
    \/ \E s \in Sock : DispatchFileAccept(s)
    \/ \E s \in Sock : DispatchFileDecline(s)
    \/ \E n \in Node : \E i \in 1..MaxQueue : FileStart(n, i)
    \/ \E n \in Node : \E i \in 1..MaxQueue : FileChunk(n, i)
    \/ \E s \in Sock : DispatchFileData(s)
    \/ \E s \in Sock : DispatchText(s)

SpecMeta == InitMeta /\ [][NextMeta]_vars

\* The dispatcher of s opens the file of an offer in this step.
Opens(s) == pc[s] = "meta_open" /\ pc'[s] = "ask"

\* C36: offers of one file name that arrive from two peers at the same time
\* get destination paths of their own: no two receive-side entries of a node
\* share a path, and no offer is opened on a file that is already there.
C36_SameNameDistinctPaths ==
    /\ [](\A n \in Node : \A id1, id2 \in DOMAIN current_files[n] :
            id1 # id2 => current_files[n][id1].path # current_files[n][id2].path)
    /\ [][\A s \in Sock :
            Opens(s) => tpeer[s].opening.path \notin DOMAIN downloads[NodeOf(s)]]_vars

----------------------------------------------------------------------------
\* A linked to B; B offers a file and A, at any moment of the transfer, calls
\* remove_peer for B.
InitDrop ==
    Pair /\ todo = [n \in Node |->
        CASE n = "B" -> [NoCalls EXCEPT !.file = 1]
          [] n = "A" -> [NoCalls EXCEPT !.remove = 1]
          [] OTHER -> NoCalls]

NextDrop ==
    \/ \E f \in File : SendFile("B", f)
    \/ \E s \in Sock : DispatchFileMeta(s)
    \/ \E s \in Sock : FileMetaOpen(s)
    \/ \E s \in Sock : \E accept \in BOOLEAN : RespondFile(s, accept)
    \/ \E s \in Sock : DispatchFileAccept(s)
    \/ \E s \in Sock : DispatchFileDecline(s)
    \/ \E n \in Node : \E i \in 1..MaxQueue : FileStart(n, i)
    \/ \E n \in Node : \E i \in 1..MaxQueue : FileChunk(n, i)
    \/ \E s \in Sock : DispatchFileData(s)
    \/ \E s \in Sock : DispatchText(s)
    \/ UserRemove("A", ConnectionId("B"))
    \/ \E n \in Node : UserRmNotify(n)
    \/ \E s \in Sock : LoopExit(s)
    \/ \E s \in Sock : RmPop(s)
    \/ \E s \in Sock : RmNotify(s)
    \/ \E s \in Sock : TaskEnd(s)

SpecDrop == InitDrop /\ [][NextDrop]_vars

\* The registry entry of id is taken out of the registry of n in this step.
Removes(n, id) == HasPeer(n, id) /\ ~HasPeer(n, id)'

\* C37: the removal of a peer closes the file of a receive-side transfer from
\* that peer and takes its entry out of current_files: after the removal
\* current_files has no entry for the id that left the registry.
C37_RemovalEndsTransfer ==
    [][\A n \in Node : \A m \in Node :
        LET id == ConnectionId(m) IN
        (Removes(n, id) /\ id \in DOMAIN current_files[n]) =>
            /\ id \notin DOMAIN current_files'[n]
            /\ ~downloads'[n][current_files[n][id].path].open]_vars

----
\* C38: is_host is True when the node starts and False from the first time
\* connect_to_peer opens an outbound connection, whether or not the handshake
\* that follows succeeds; it never becomes True again, and a node replays its
\* history to a peer it accepted only if is_host is True at that moment.
HasOpened(n) == \E c \in 1..MaxConn : conn[c] # NoConn /\ conn[c].dialer = n
Replays(s) ==
    /\ s[2] = "a" /\ pc[s] = "h_replay" /\ pc'[s] # "h_replay"
    /\ chan'[Other(s)] # chan[Other(s)]

----
\* The host B of a star offers one empty file to A and C, and each of them
\* answers the offer.
InitEmpty ==
    Star /\ todo = [n \in Node |->
        IF n = "B" THEN [NoCalls EXCEPT !.file = 1] ELSE NoCalls]

NextEmpty ==
    \/ SendFile("B", 0)
    \/ \E s \in Sock : DispatchFileMeta(s)
    \/ \E s \in Sock : FileMetaOpen(s)
    \/ \E s \in Sock : \E accept \in BOOLEAN : RespondFile(s, accept)
    \/ \E s \in Sock : DispatchFileAccept(s)
    \/ \E s \in Sock : DispatchFileDecline(s)
    \/ \E n \in Node : \E i \in 1..MaxQueue : FileStart(n, i)
    \/ \E n \in Node : \E i \in 1..MaxQueue : FileChunk(n, i)
    \/ \E s \in Sock : DispatchText(s)

\* The threads of the file protocol keep running: every dispatcher thread and
\* every data thread that can take a step eventually takes one. The calls of
\* the user (send_file, respond_file) are under no such obligation. Each
\* condition names what every step of that thread changes: a dispatcher takes
\* a frame off its own stream, the opening of a file moves its thread on, a
\* data thread changes its entry in the list of data threads.
FairEmpty ==
    /\ \A s \in Sock : WF_<<Len(chan[s])>>(DispatchFileMeta(s))
    /\ \A s \in Sock : WF_<<pc[s]>>(FileMetaOpen(s))
    /\ \A s \in Sock : WF_<<Len(chan[s])>>(DispatchFileAccept(s))
    /\ \A s \in Sock : WF_<<Len(chan[s])>>(DispatchFileDecline(s))
    /\ \A s \in Sock : WF_<<Len(chan[s])>>(DispatchText(s))
    /\ \A n \in Node : \A i \in 1..MaxQueue :
            WF_<<ftasks[n]>>(FileStart(n, i)) /\ WF_<<ftasks[n]>>(FileChunk(n, i))

SpecEmpty == InitEmpty /\ [][NextEmpty]_vars /\ FairEmpty

\* The receiver n holds the entry of an accepted offer of the empty file from m.
EmptyAccepted(n, m) ==
    /\ <<ConnectionId(m), 0, "accept">> \in answered[n]
    /\ ConnectionId(m) \in DOMAIN current_files[n]
    /\ current_files[n][ConnectionId(m)].size = 0

\* C39: a transfer whose FILE_META declares size 0 completes: once the
\* receiver has accepted, its entry for the sender is eventually closed and
\* removed from current_files (the code closes and removes in one branch).
C39_EmptyTransferCompletes ==
    \A n \in Node : \A m \in Node :
        EmptyAccepted(n, m) ~> (ConnectionId(m) \notin DOMAIN current_files[n])

----
\* The dispatcher of s handles a FILE_ACCEPT frame while its node has no offer
\* pending.
StrayAccept(s) == Handles(s, "FACC") /\ pending_file[NodeOf(s)] = NoFile

\* C40: a FILE_ACCEPT frame read while no offer is pending (send_file was never
\* called on the node) leaves the registry as it was and the dispatcher in its
\* loop on an open stream; the data thread it starts ends before it sends, so
\* the node writes no FILE_DATA frame to anyone.
C40_StrayAcceptHarmless ==
    /\ [][\A s \in Sock : StrayAccept(s) =>
            /\ peers'[NodeOf(s)] = peers[NodeOf(s)]
            /\ connection_map'[NodeOf(s)] = connection_map[NodeOf(s)]
            /\ peer_nicks'[NodeOf(s)] = peer_nicks[NodeOf(s)]
            /\ pc'[s] = "loop" /\ ~closed'[s]]_vars
    /\ [](\A n \in Node : pending_file[n] = NoFile =>
            /\ fdat_sent[n] = {}
            /\ \A i \in 1..Len(ftasks[n]) : ftasks[n][i].pc = "new")

\* The host B relayed an offer, read the FILE_ACCEPT that answered it, and the
\* data thread it started has gone without a frame sent.
C40_Witness ==
    /\ pending_file["B"] = NoFile
    /\ facc_from["B"] # {} /\ ftasks["B"] = <<>> /\ fdat_sent["B"] = {}
    /\ \A s \in Sock : NodeOf(s) = "B" /\ pc[s] # "unused" => pc[s] = "loop" /\ ~closed[s]

====
